---- MODULE Spec2Model ----
(***************************************************************************)
(* toml_parse: the lexer (crates/toml_parse/src/lexer/mod.rs) and the      *)
(* event parser (crates/toml_parse/src/parser/event.rs).                   *)
(*                                                                         *)
(* A run is Document::new(input), then Document::lex() pulled to           *)
(* exhaustion (one action per Lexer::next call, one disjunct per lex_*     *)
(* helper), then parse_tokens on the collected tokens (one action per      *)
(* iteration of the loop of `document`, one disjunct per handler).         *)
(*                                                                         *)
(* ValidatorSpec is a raw lexed and then handed to one validator of        *)
(* parser/key.rs, parser/strings.rs or parser/trivia.rs (one action per    *)
(* validator); SinkSpec is errors reported to the sinks of error.rs.       *)
(*                                                                         *)
(* A byte slice (&[u8], &str, Raw) is the pair of its offsets in the       *)
(* input, [start |-> s, end |-> e], standing for input[s..e]; offsets are  *)
(* 0-based as in the source, so byte i of the input is input[i + 1].       *)
(***************************************************************************)
EXTENDS Integers, Sequences, FiniteSets, TLC

VARIABLES
    input,      \* Document::input, as a sequence of bytes
    stream,     \* Lexer::stream, the part of the input not lexed yet
    tokens,     \* the tokens Lexer::next has returned so far
    phase,      \* "lex", "parse", "done"; "returned" (a validator has returned);
                \* "report" (an ErrorSink is being reported to); or a debug
                \* assertion has failed: "panic_utf8" (debug_assert_utf8!),
                \* "panic_append" (Raw::append), "panic_validator" (substr_at,
                \* or the debug_assert! / unreachable! of a string validator)
    pos,        \* parse_tokens: how many of `tokens` have been taken
    events,     \* what the EventReceiver has received, in order
    errors,     \* what the ErrorSink (a Vec<ParseError>) has received, in order
    sinks,      \* one ErrorSink of each provided type: (), Option<ParseError>,
                \* Vec<ParseError>
    reported,   \* the errors passed to ErrorSink::report_error so far, in order
    call        \* the validator last called: its name, its raw, what it returned

vars == <<input, stream, tokens, phase, pos, events, errors, sinks, reported, call>>

----------------------------------------------------------------------------
(* Bounds *)

\* Every input of at most MaxLen characters over Chars is lexed and parsed.
MaxLen == 3

----------------------------------------------------------------------------
(* Bytes *)

DOT == 46
EQUALS == 61
COMMA == 44
LEFT_SQUARE_BRACKET == 91
RIGHT_SQUARE_BRACKET == 93
LEFT_CURLY_BRACKET == 123
RIGHT_CURLY_BRACKET == 125
SPACE == 32
TAB == 9
COMMENT_START_SYMBOL == 35
CR == 13
LF == 10
APOSTROPHE == 39
QUOTATION_MARK == 34
ESCAPE == 92
RIGHT_PAREN == 41

WSCHAR == {SPACE, TAB}

\* const TOKEN_START: &[u8] = b".=,[]{} \t#\r\n)'\"" of lex_atom
TOKEN_START ==
    {DOT, EQUALS, COMMA, LEFT_SQUARE_BRACKET, RIGHT_SQUARE_BRACKET,
     LEFT_CURLY_BRACKET, RIGHT_CURLY_BRACKET, SPACE, TAB, COMMENT_START_SYMBOL,
     CR, LF, RIGHT_PAREN, APOSTROPHE, QUOTATION_MARK}

\* The bytes Lexer::next hands to lex_ascii_char, with the kind it gives them.
AsciiKind ==
    [b \in {DOT, EQUALS, COMMA, LEFT_SQUARE_BRACKET, RIGHT_SQUARE_BRACKET,
            LEFT_CURLY_BRACKET, RIGHT_CURLY_BRACKET, LF} |->
        CASE b = DOT -> "Dot"
          [] b = EQUALS -> "Equals"
          [] b = COMMA -> "Comma"
          [] b = LEFT_SQUARE_BRACKET -> "LeftSquareBracket"
          [] b = RIGHT_SQUARE_BRACKET -> "RightSquareBracket"
          [] b = LEFT_CURLY_BRACKET -> "LeftCurlyBracket"
          [] b = RIGHT_CURLY_BRACKET -> "RightCurlyBracket"
          [] b = LF -> "Newline"]

----------------------------------------------------------------------------
(* Slices *)

None == 0 - 1

Min(S) == CHOOSE x \in S : \A y \in S : x <= y

Slice(s, e) == [start |-> s, end |-> e]

SliceLen(s) == s.end - s.start

\* The bytes of a slice of `src`.
BytesOf(src, s) == SubSeq(src, s.start + 1, s.end)

\* stream.get(i): byte i of the slice, or None past its end.
Get(src, s, i) == IF s.start + i < s.end THEN src[s.start + i + 1] ELSE None

\* &stream[offset..]
From(s, offset) == Slice(s.start + offset, s.end)

\* next.eof_offset()
eof_offset(s) == SliceLen(s)

\* next.find_slice((b1, b2, ...)): offset of the first byte of `s` in `set`.
find_byte(src, s, set) ==
    LET hits == {i \in 0 .. SliceLen(s) - 1 : Get(src, s, i) \in set}
    IN  IF hits = {} THEN None ELSE Min(hits)

\* Does the slice start with three bytes `q`?
starts_with3(src, s, q) ==
    /\ Get(src, s, 0) = q
    /\ Get(src, s, 1) = q
    /\ Get(src, s, 2) = q

\* std::str::from_utf8(bytes).is_ok(), for sequences of 1- to 4-byte characters
\* (lead bytes C2..DF, E0..EF, F0..F4, continuation bytes 80..BF).
IsCont(b) == b >= 128 /\ b <= 191

CharLen(b) ==
    CASE b < 128 -> 1
      [] b >= 194 /\ b <= 223 -> 2
      [] b >= 224 /\ b <= 239 -> 3
      [] b >= 240 /\ b <= 244 -> 4
      [] OTHER -> 0

RECURSIVE IsUtf8(_)
IsUtf8(bytes) ==
    IF bytes = <<>> THEN TRUE
    ELSE LET n == CharLen(bytes[1])
         IN  /\ n > 0
             /\ n <= Len(bytes)
             /\ \A i \in 2 .. n : IsCont(bytes[i])
             /\ IsUtf8(SubSeq(bytes, n + 1, Len(bytes)))

\* debug_assert_utf8!(slice)
debug_assert_utf8(src, s) == IsUtf8(BytesOf(src, s))

----------------------------------------------------------------------------
(* Lexer *)

Token(kind, raw) == [kind |-> kind, raw |-> raw]

\* stream.next_slice(offset): the first `offset` bytes, and the stream advanced
\* past them.
next_slice(s, offset) ==
    [slice |-> Slice(s.start, s.start + offset),
     rest |-> Slice(s.start + offset, s.end)]

\* The common tail of every lex_* helper: cut `offset` bytes off the stream,
\* run the helper's debug_assert_utf8! checks, build the token.
lexed(src, s, kind, offset) ==
    LET cut == next_slice(s, offset)
    IN  [token |-> Token(kind, cut.slice),
         stream |-> cut.rest,
         ok |-> /\ debug_assert_utf8(src, s)
                /\ debug_assert_utf8(src, cut.rest)
                /\ debug_assert_utf8(src, cut.slice)]

lex_ascii_char(src, s, kind) == lexed(src, s, kind, 1)

lex_whitespace(src, s) ==
    LET stop == {i \in 0 .. SliceLen(s) - 1 : Get(src, s, i) \notin WSCHAR}
        offset == IF stop = {} THEN eof_offset(s) ELSE Min(stop)
    IN  lexed(src, s, "Whitespace", offset)

\* lex_comment as it would be if it searched for the line feed only.
lex_comment_to_lf(src, s) ==
    LET next == From(s, 1)
        found == find_byte(src, next, {LF})
        offset == 1 + (IF found = None THEN eof_offset(next) ELSE found)
    IN  lexed(src, s, "Comment", offset)

lex_comment(src, s) ==
    LET next == From(s, 1)
        found == find_byte(src, next, {CR, LF})
        offset == 1 + (IF found = None THEN eof_offset(next) ELSE found)
    IN  lexed(src, s, "Comment", offset)

\* lex_crlf as it would be if the line feed of a CRLF were skipped instead of
\* being made part of the token.
lex_crlf_drop_lf(src, s) ==
    LET r == lexed(src, s, "Newline", 1)
    IN  IF Get(src, s, 1) = LF THEN [r EXCEPT !.stream = From(s, 2)] ELSE r

lex_crlf(src, s) ==
    LET has_lf == Get(src, s, 1) = LF
        offset == 1 + (IF has_lf THEN 1 ELSE 0)
    IN  lexed(src, s, "Newline", offset)

lex_literal_string(src, s) ==
    LET next == From(s, 1)
        found == find_byte(src, next, {APOSTROPHE, LF})
        offset == 1 + (IF found = None THEN eof_offset(next)
                       ELSE IF Get(src, next, found) = APOSTROPHE THEN found + 1
                       ELSE found)
    IN  lexed(src, s, "LiteralString", offset)

\* The `if stream.get(offset) == Some(&quote) { offset += 1 }` pair that ends
\* both multi-line string lexers.
trailing_quotes(src, s, offset, quote) ==
    LET o1 == IF Get(src, s, offset) = quote THEN offset + 1 ELSE offset
    IN  IF Get(src, s, o1) = quote THEN o1 + 1 ELSE o1

lex_ml_literal_string(src, s) ==
    LET next == From(s, 3)
        hits == {i \in 0 .. SliceLen(next) - 1 : starts_with3(src, From(next, i), APOSTROPHE)}
        body == 3 + (IF hits = {} THEN eof_offset(next) ELSE Min(hits) + 3)
    IN  lexed(src, s, "MlLiteralString", trailing_quotes(src, s, body, APOSTROPHE))

\* next.find_slice((QUOTATION_MARK, ESCAPE, b'\n')) from `offset` on: the offset
\* just after a quotation mark, or at an escape or a line feed, or at EOF.
scan_basic(src, s, offset) ==
    LET next == From(s, offset)
        found == find_byte(src, next, {QUOTATION_MARK, ESCAPE, LF})
    IN  offset + (IF found = None THEN eof_offset(next)
                  ELSE IF Get(src, next, found) = QUOTATION_MARK THEN found + 1
                  ELSE found)

\* The `while stream.get(offset) == Some(&ESCAPE)` loop of lex_basic_string and
\* of lex_ml_basic_string (the two loops are the same text).
RECURSIVE skip_escapes(_, _, _)
skip_escapes(src, s, offset) ==
    IF Get(src, s, offset) = ESCAPE
    THEN LET o1 == offset + 1
             o2 == IF Get(src, s, o1) \in {ESCAPE, QUOTATION_MARK} THEN o1 + 1 ELSE o1
         IN  skip_escapes(src, s, scan_basic(src, s, o2))
    ELSE offset

lex_basic_string(src, s) ==
    lexed(src, s, "BasicString", skip_escapes(src, s, scan_basic(src, s, 1)))

lex_ml_basic_string(src, s) ==
    LET next == From(s, 3)
        hits == {i \in 0 .. SliceLen(next) - 1 :
                    \/ starts_with3(src, From(next, i), QUOTATION_MARK)
                    \/ Get(src, next, i) = ESCAPE}
        first == 3 + (IF hits = {} THEN eof_offset(next)
                      ELSE IF Get(src, next, Min(hits)) = QUOTATION_MARK THEN Min(hits) + 3
                      ELSE Min(hits))
        body == skip_escapes(src, s, first)
    IN  lexed(src, s, "MlBasicString", trailing_quotes(src, s, body, QUOTATION_MARK))

\* lex_atom as it would be if it advanced by one byte instead of scanning to
\* the next byte of TOKEN_START.
lex_atom_one_byte(src, s) == lexed(src, s, "Atom", 1)

lex_atom(src, s) ==
    LET stop == {i \in 0 .. SliceLen(s) - 1 : Get(src, s, i) \in TOKEN_START}
        offset == IF stop = {} THEN eof_offset(s) ELSE Min(stop)
    IN  lexed(src, s, "Atom", offset)

----------------------------------------------------------------------------
(* Event parser *)

StringKinds == {"LiteralString", "BasicString", "MlLiteralString", "MlBasicString"}

\* The token kinds that can start a key.
KeyKinds == StringKinds \cup {"Atom"}

\* The StringKind the parser gives a key token of kind `kind`.
string_kind(kind) == IF kind = "Atom" THEN "Unquoted" ELSE kind

\* Option::None for a token, and for the StringKind of an event that has none.
NoToken == [kind |-> "None", raw |-> Slice(0, 0)]
NoKind == "None"

Event(kind, skind, raw) == [kind |-> kind, string_kind |-> skind, raw |-> raw]

ParseError(context, description, expected, unexpected) ==
    [context |-> context, description |-> description,
     expected |-> expected, unexpected |-> unexpected]

Literal(s) == <<"Literal", s>>
Description(s) == <<"Description", s>>

\* Raw::before as it would be if it kept the whole of the raw.
before_whole(raw) == raw

\* Raw::append as it would be if it did not extend the raw to the end of `other`.
append_first_only(raw, other) == raw

\* Raw::before, Raw::after, Raw::append and the debug_assert! of append.
before(raw) == Slice(raw.start, raw.start)
after(raw) == Slice(raw.end, raw.end)
append(raw, other) == Slice(raw.start, other.end)
append_ok(raw, other) == raw.start <= other.end

(* The state a parser function works on: p.pos tokens of the slice are taken, *)
(* p.events and p.errors are what receiver and sink hold, p.ok is FALSE once  *)
(* a debug assertion has failed.                                              *)

\* has_token as it would be if the parser gave up at the first diagnostic.
has_token_until_error(toks, p) == p.pos < Len(toks) /\ p.errors = <<>>

\* `tokens.next_token()` is Some: a token is left.
has_token(toks, p) == p.pos < Len(toks)

\* The token `tokens.next_token()` / `tokens.first()` returns.
first(toks, p) == IF has_token(toks, p) THEN toks[p.pos + 1] ELSE NoToken

\* The effect of `tokens.next_token()` on the slice.
next_token(p) == [p EXCEPT !.pos = @ + 1]

receive(p, kind, skind, raw) == [p EXCEPT !.events = Append(@, Event(kind, skind, raw))]

\* report_error as it would be if the sink put the newest diagnostic first.
report_error_first(p, e) == [p EXCEPT !.errors = <<e>> \o @]

report_error(p, e) == [p EXCEPT !.errors = Append(@, e)]

debug_assert(p, cond) == [p EXCEPT !.ok = @ /\ cond]

on_decor(p, decor_token) == receive(p, "Decor", NoKind, decor_token.raw)

next_token_if(toks, p, kind) ==
    IF has_token(toks, p) /\ first(toks, p).kind = kind
    THEN [some |-> TRUE, token |-> first(toks, p), p |-> next_token(p)]
    ELSE [some |-> FALSE, token |-> NoToken, p |-> p]

opt_whitespace(toks, p) ==
    LET ws == next_token_if(toks, p, "Whitespace")
    IN  IF ws.some THEN on_decor(ws.p, ws.token) ELSE p

\* ignore_to_newline as it would be if it went on behind the Newline to the
\* end of the tokens.
ignore_to_newline_to_end(toks, p) ==
    [p EXCEPT !.pos = Len(toks),
              !.events = @ \o [k \in 1 .. Len(toks) - p.pos |->
                                  Event(IF toks[p.pos + k].kind = "Newline" THEN "Decor"
                                        ELSE "Error",
                                        NoKind, toks[p.pos + k].raw)]]

RECURSIVE ignore_to_newline(_, _)
ignore_to_newline(toks, p) ==
    IF ~has_token(toks, p) THEN p
    ELSE LET current_token == first(toks, p)
             p1 == next_token(p)
         IN  IF current_token.kind = "Newline"
             THEN on_decor(p1, current_token)
             ELSE ignore_to_newline(toks, receive(p1, "Error", NoKind, current_token.raw))

\* The `while let Some(dot_token)` loop of on_key. The result is the parser
\* state and `success`, the Option<Token> on_key returns.
RECURSIVE on_key_loop(_, _, _)
on_key_loop(toks, p, key_token) ==
    LET dot == next_token_if(toks, p, "Dot")
    IN  IF ~dot.some THEN [p |-> p, success |-> key_token]
        ELSE
          LET p1 == opt_whitespace(toks, receive(dot.p, "KeySep", NoKind, dot.token.raw))
              context == append(key_token.raw, dot.token.raw)
              context_ok == append_ok(key_token.raw, dot.token.raw)
          IN  IF has_token(toks, p1)
              THEN LET current_token == first(toks, p1)
                       p2 == next_token(p1)
                   IN  IF current_token.kind \in KeyKinds
                       THEN \* success = Some(key_token);
                            \* receiver.simple_key(key_token.raw(), kind);
                            on_key_loop(toks,
                                receive(p2, "SimpleKey", string_kind(current_token.kind),
                                        key_token.raw),
                                key_token)
                       ELSE [p |-> report_error(
                                     debug_assert(
                                         receive(p2, "Error", NoKind, current_token.raw),
                                         context_ok),
                                     ParseError(context, "dotted key",
                                                <<Description("key")>>,
                                                before(current_token.raw))),
                             success |-> NoToken]
              ELSE [p |-> report_error(debug_assert(p1, context_ok),
                                ParseError(context, "dotted key", <<Description("key")>>,
                                           after(dot.token.raw))),
                    success |-> NoToken]

on_key(toks, p, key_token, kind) ==
    on_key_loop(toks,
                opt_whitespace(toks, receive(p, "SimpleKey", kind, key_token.raw)),
                key_token)

\* on_missing_table_key as it would be if it emitted the Error event without
\* reporting.
on_missing_table_key_silent(p, token) == receive(p, "Error", NoKind, token.raw)

on_missing_table_key(p, token) ==
    report_error(receive(p, "Error", NoKind, token.raw),
                 ParseError(token.raw, "table", <<Description("key")>>, before(token.raw)))

RECURSIVE table_key(_, _, _)
table_key(toks, p, previous_raw) ==
    IF ~has_token(toks, p)
    THEN [p |-> report_error(p, ParseError(previous_raw, "table", <<Description("key")>>,
                                           after(previous_raw))),
          success |-> NoToken]
    ELSE LET current_token == first(toks, p)
             p1 == next_token(p)
         IN  IF current_token.kind = "Whitespace"
             THEN table_key(toks, on_decor(p1, current_token), previous_raw)
             ELSE IF current_token.kind \in KeyKinds
             THEN on_key(toks, p1, current_token, string_kind(current_token.kind))
             ELSE [p |-> on_missing_table_key(p1, current_token), success |-> NoToken]

\* The loop of ws_comment_nl and of on_comment keeps four Option<Token>s.
NoLocals == [first |-> NoToken, last |-> NoToken, first_bad |-> NoToken, last_bad |-> NoToken]

\* first.get_or_insert(current_token); last = Some(current_token);
seen(l, token) ==
    [l EXCEPT !.first = IF @ = NoToken THEN token ELSE @, !.last = token]

\* The two assignments below as they would be if last_bad kept the first bad
\* token too.
seen_bad_first_only(l, token) ==
    [l EXCEPT !.first_bad = IF @ = NoToken THEN token ELSE @,
              !.last_bad = IF @ = NoToken THEN token ELSE @]

\* first_bad.get_or_insert(current_token); last_bad = Some(current_token);
seen_bad(l, token) ==
    [l EXCEPT !.first_bad = IF @ = NoToken THEN token ELSE @, !.last_bad = token]

\* if let (Some(first), Some(last), Some(first_bad), Some(last_bad)) = ... { report }
report_run(p, l, description) ==
    IF l.first # NoToken /\ l.last # NoToken /\ l.first_bad # NoToken /\ l.last_bad # NoToken
    THEN report_error(
             debug_assert(p, /\ append_ok(l.first.raw, l.last.raw)
                             /\ append_ok(l.first_bad.raw, l.last_bad.raw)),
             ParseError(append(l.first.raw, l.last.raw), description, <<>>,
                        append(l.first_bad.raw, l.last_bad.raw)))
    ELSE p

\* The loop of on_comment: every token up to the newline that is no newline is bad.
RECURSIVE on_comment_loop(_, _, _)
on_comment_loop(toks, p, l) ==
    IF ~has_token(toks, p) THEN [p |-> p, l |-> l]
    ELSE LET current_token == first(toks, p)
             p1 == next_token(p)
             l1 == seen(l, current_token)
         IN  IF current_token.kind = "Newline"
             THEN [p |-> on_decor(p1, current_token), l |-> l1]
             ELSE on_comment_loop(toks, receive(p1, "Error", NoKind, current_token.raw),
                                  seen_bad(l1, current_token))

on_comment(toks, p, comment_token) ==
    LET run == on_comment_loop(toks, on_decor(p, comment_token), NoLocals)
        l == run.l
        p1 == IF l.first_bad # NoToken /\ l.last_bad # NoToken
              THEN report_error(
                       debug_assert(run.p, append_ok(l.first_bad.raw, l.last_bad.raw)),
                       ParseError(comment_token.raw, "comment", <<>>,
                                  append(l.first_bad.raw, l.last_bad.raw)))
              ELSE run.p
    IN  report_run(p1, l, "comment")

\* The loop of ws_comment_nl. `comment` is the Comment token the loop broke on,
\* which on_comment then takes over.
RECURSIVE ws_comment_nl_loop(_, _, _)
ws_comment_nl_loop(toks, p, l) ==
    IF ~has_token(toks, p) THEN [p |-> p, l |-> l]
    ELSE LET current_token == first(toks, p)
             p1 == next_token(p)
             l1 == seen(l, current_token)
         IN  CASE current_token.kind = "Comment" ->
                    [p |-> on_comment(toks, p1, current_token), l |-> l1]
               [] current_token.kind = "Whitespace" ->
                    ws_comment_nl_loop(toks, on_decor(p1, current_token), l1)
               [] current_token.kind = "Newline" ->
                    [p |-> on_decor(p1, current_token), l |-> l1]
               [] OTHER ->
                    ws_comment_nl_loop(toks,
                                       receive(p1, "Error", NoKind, current_token.raw),
                                       seen_bad(l1, current_token))

ws_comment_nl(toks, p) ==
    LET run == ws_comment_nl_loop(toks, p, NoLocals)
    IN  report_run(run.p, run.l, "newline")

on_table(toks, p, open_token) ==
    LET second_open == next_token_if(toks, p, "LeftSquareBracket")
        is_array_table == second_open.some
        open_raw == IF is_array_table THEN append(open_token.raw, second_open.token.raw)
                    ELSE open_token.raw
        p1 == IF is_array_table
              THEN receive(debug_assert(second_open.p,
                                        append_ok(open_token.raw, second_open.token.raw)),
                           "ArrayTableOpen", NoKind, open_raw)
              ELSE receive(p, "StdTableOpen", NoKind, open_raw)
        key == table_key(toks, p1, open_raw)
        last_key_token == key.success
        p2 == opt_whitespace(toks, key.p)
        close == next_token_if(toks, p2, "RightSquareBracket")
        second_close == next_token_if(toks, close.p, "RightSquareBracket")
        closed ==
            IF last_key_token = NoToken THEN [p |-> p2, success |-> FALSE]
            ELSE IF close.some
            THEN IF is_array_table
                 THEN IF second_close.some
                      THEN [p |-> receive(
                                    debug_assert(second_close.p,
                                        append_ok(close.token.raw, second_close.token.raw)),
                                    "ArrayTableClose", NoKind,
                                    append(close.token.raw, second_close.token.raw)),
                            success |-> TRUE]
                      ELSE [p |-> report_error(
                                    debug_assert(close.p,
                                        append_ok(open_token.raw, close.token.raw)),
                                    ParseError(append(open_token.raw, close.token.raw),
                                               "array table", <<Literal("]")>>,
                                               after(close.token.raw))),
                            success |-> FALSE]
                 ELSE [p |-> receive(close.p, "StdTableClose", NoKind, close.token.raw),
                       success |-> TRUE]
            ELSE [p |-> report_error(
                          debug_assert(p2, append_ok(open_token.raw, last_key_token.raw)),
                          ParseError(append(open_token.raw, last_key_token.raw),
                                     IF is_array_table THEN "array table" ELSE "table",
                                     IF is_array_table THEN <<Literal("]]")>>
                                     ELSE <<Literal("]")>>,
                                     after(last_key_token.raw))),
                  success |-> FALSE]
    IN  IF closed.success THEN ws_comment_nl(toks, closed.p)
        ELSE ignore_to_newline(toks, closed.p)

on_expression_key(toks, p, key_token, kind) ==
    LET key == on_key(toks, p, key_token, kind)
    IN  IF key.success = NoToken THEN ignore_to_newline(toks, key.p) ELSE key.p

on_missing_expression_key(toks, p, token) ==
    ignore_to_newline(toks,
        report_error(receive(p, "Error", NoKind, token.raw),
                     ParseError(token.raw, "key-value pair", <<Description("key")>>,
                                before(token.raw))))

\* on_missing_on_std_table as it would be if it took a `]` without a header
\* for the close of a table.
on_missing_on_std_table_close(toks, p, token) ==
    ws_comment_nl(toks, receive(p, "StdTableClose", NoKind, token.raw))

on_missing_on_std_table(toks, p, token) ==
    ws_comment_nl(toks,
        report_error(receive(p, "Error", NoKind, token.raw),
                     ParseError(token.raw, "table", <<Literal("[")>>, before(token.raw))))

----------------------------------------------------------------------------
(* Validators: parser/key.rs, parser/strings.rs, parser/trivia.rs *)

NON_ASCII == 128 .. 255
UNQUOTED_CHAR == (65 .. 90) \cup (97 .. 122) \cup (48 .. 57) \cup {45, 95}
LITERAL_CHAR == {9} \cup (32 .. 38) \cup (40 .. 126) \cup NON_ASCII
MLL_CHAR == {9} \cup (32 .. 38) \cup (40 .. 126) \cup NON_ASCII
BASIC_UNESCAPED == WSCHAR \cup {33} \cup (35 .. 91) \cup (93 .. 126) \cup NON_ASCII
MLB_UNESCAPED == WSCHAR \cup {33} \cup (35 .. 91) \cup (93 .. 126) \cup NON_ASCII
NON_EOL == {9} \cup (32 .. 126) \cup NON_ASCII
DIGIT == 48 .. 57
HEXDIG == DIGIT \cup (65 .. 70) \cup (97 .. 102)

\* The elements of a finite set of numbers in increasing order: the order in
\* which `for (i, b) in s.as_bytes().iter().enumerate()` meets them.
Ascending(S) ==
    [k \in 1 .. Cardinality(S) |-> CHOOSE x \in S : Cardinality({y \in S : y < x}) = k - 1]

\* str::starts_with, str::ends_with for a byte pattern
starts_with(src, s, pat) ==
    /\ SliceLen(s) >= Len(pat)
    /\ SubSeq(src, s.start + 1, s.start + Len(pat)) = pat

ends_with(src, s, pat) ==
    /\ SliceLen(s) >= Len(pat)
    /\ SubSeq(src, s.end - Len(pat) + 1, s.end) = pat

\* str::strip_prefix, str::strip_suffix: `some` tells whether the pattern was
\* there, `s` is the stripped slice, or the slice as it was.
strip_prefix(src, s, pat) ==
    IF starts_with(src, s, pat)
    THEN [some |-> TRUE, s |-> Slice(s.start + Len(pat), s.end)]
    ELSE [some |-> FALSE, s |-> s]

\* str::strip_suffix as it would be if it never found the pattern.
strip_suffix_none(src, s, pat) == [some |-> FALSE, s |-> s]

strip_suffix(src, s, pat) ==
    IF ends_with(src, s, pat)
    THEN [some |-> TRUE, s |-> Slice(s.start, s.end - Len(pat))]
    ELSE [some |-> FALSE, s |-> s]

\* s.trim_end_matches(q) for a one-byte character q
trim_end_matches(src, s, q) ==
    Slice(s.start,
          Min({e \in s.start .. s.end : \A k \in e + 1 .. s.end : src[k] = q}))

\* str::is_char_boundary(i) on the slice s
slice_is_char_boundary(src, s, i) ==
    \/ i = 0
    \/ i = SliceLen(s)
    \/ i < SliceLen(s) /\ ~IsCont(Get(src, s, i))

\* substr_at(raw, offset): the character of `raw` that holds byte `offset`.
\* `ok` is its debug_assert!(offset < raw.len()).
substr_at(src, raw, offset) ==
    LET starts == {i \in 0 .. offset : slice_is_char_boundary(src, raw, i)}
        start == IF starts = {} THEN 0 ELSE CHOOSE i \in starts : \A j \in starts : j <= i
        ends == {i \in offset + 1 .. SliceLen(raw) - 1 : slice_is_char_boundary(src, raw, i)}
        end == IF ends = {} THEN SliceLen(raw) ELSE Min(ends)
    IN  [ok |-> offset < SliceLen(raw),
         raw |-> Slice(raw.start + start, raw.start + end)]

\* parser::State with the sink it reports to (a Vec<ParseError>); `ok` is
\* FALSE once a debug assertion has failed.
State(context, description) ==
    [context |-> context, description |-> description, errors |-> <<>>, ok |-> TRUE]

\* State::report_error; nothing runs after a failed assertion.
state_report_error(st, expected, unexpected) ==
    IF st.ok
    THEN [st EXCEPT !.errors =
             Append(@, ParseError(st.context, st.description, expected, unexpected))]
    ELSE st

\* state.report_error(expected, Raw::new_unchecked(substr_at(s, offset)))
report_substr_at(st, src, s, offset, expected) ==
    LET unexpected == substr_at(src, s, offset)
    IN  IF unexpected.ok THEN state_report_error(st, expected, unexpected.raw)
        ELSE [st EXCEPT !.ok = FALSE]

\* The reports of a loop over the bytes of `s`, for the offsets (and what was
\* expected there) in `items`, in order.
RECURSIVE report_each(_, _, _, _)
report_each(st, src, s, items) ==
    IF items = <<>> THEN st
    ELSE report_each(report_substr_at(st, src, s, Head(items).offset, Head(items).expected),
                     src, s, Tail(items))

\* A returned &str or Cow<str>: Cow::Borrowed of a slice of the input, or
\* Cow::Owned of a new buffer.
Borrowed(src, s) == [owned |-> FALSE, bytes |-> BytesOf(src, s), slice |-> s]
Owned(bytes) == [owned |-> TRUE, bytes |-> bytes, slice |-> Slice(None, None)]

\* What a validator leaves: the value it returns, what it reported, and
\* whether every debug assertion held.
Returned(value, st) == [value |-> value, errors |-> st.errors, ok |-> st.ok]

parse_unquoted_key(src, raw) ==
    LET st == State(raw, "unquoted-key")
        bad == {i \in 0 .. SliceLen(raw) - 1 : Get(src, raw, i) \notin UNQUOTED_CHAR}
        expected == <<Description("letters"), Description("numbers"), Literal("-"), Literal("_")>>
        items == [k \in 1 .. Cardinality(bad) |->
                     [offset |-> Ascending(bad)[k], expected |-> expected]]
    IN  Returned(Borrowed(src, raw), report_each(st, src, raw, items))

parse_literal_string(src, raw) ==
    LET st0 == State(raw, "literal string")
        prefix == strip_prefix(src, raw, <<APOSTROPHE>>)
        st1 == IF prefix.some THEN st0
               ELSE state_report_error(st0, <<Literal("'")>>, before(raw))
        suffix == strip_suffix(src, prefix.s, <<APOSTROPHE>>)
        st2 == IF suffix.some THEN st1
               ELSE state_report_error(st1, <<Literal("'")>>, after(raw))
        s == suffix.s
        bad == {i \in 0 .. SliceLen(s) - 1 : Get(src, s, i) \notin LITERAL_CHAR}
        items == [k \in 1 .. Cardinality(bad) |->
                     [offset |-> Ascending(bad)[k], expected |-> <<>>]]
    IN  Returned(Borrowed(src, s), report_each(st2, src, s, items))

strip_start_newline(src, s) ==
    IF starts_with(src, s, <<LF>>) THEN strip_prefix(src, s, <<LF>>).s
    ELSE strip_prefix(src, s, <<CR, LF>>).s

\* Expected::Description("`\n`") is written Description("LF") here.
parse_ml_literal_string(src, raw) ==
    LET st0 == State(raw, "multi-line literal string")
        delim == <<APOSTROPHE, APOSTROPHE, APOSTROPHE>>
        prefix == strip_prefix(src, raw, delim)
        st1 == IF prefix.some THEN st0
               ELSE state_report_error(st0, <<Literal("'")>>, before(raw))
        body == strip_start_newline(src, prefix.s)
        suffix == strip_suffix(src, body, delim)
        st2 == IF suffix.some THEN st1
               ELSE state_report_error(st1, <<Literal("'")>>, after(raw))
        s == IF suffix.some THEN suffix.s ELSE trim_end_matches(src, body, APOSTROPHE)
        lone_cr(i) == Get(src, s, i) = CR /\ Get(src, s, i + 1) # LF
        bad_char(i) == Get(src, s, i) \notin {APOSTROPHE, LF, CR} \cup MLL_CHAR
        bad == {i \in 0 .. SliceLen(s) - 1 : lone_cr(i) \/ bad_char(i)}
        items == [k \in 1 .. Cardinality(bad) |->
                     IF lone_cr(Ascending(bad)[k])
                     THEN [offset |-> Ascending(bad)[k] + 1,
                           expected |-> <<Description("LF")>>]
                     ELSE [offset |-> Ascending(bad)[k], expected |-> <<>>]]
    IN  Returned(Borrowed(src, s), report_each(st2, src, s, items))

parse_comment(src, raw) ==
    LET st0 == State(raw, "comment")
        has_start == Get(src, raw, 0) = COMMENT_START_SYMBOL
        st1 == IF has_start THEN st0
               ELSE state_report_error(st0, <<Literal("#")>>, before(raw))
        rest == IF has_start THEN From(raw, 1) ELSE raw
        bad == {i \in 0 .. SliceLen(rest) - 1 : Get(src, rest, i) \notin NON_EOL}
        items == [k \in 1 .. Cardinality(bad) |->
                     [offset |-> Ascending(bad)[k] + 1, expected |-> <<>>]]
    IN  Returned(Borrowed(src, raw), report_each(st1, src, raw, items))

\* Expected::Description("linefeed (`\\n')") is written Description("linefeed").
parse_newline(src, raw) ==
    LET st == State(raw, "newline")
        bytes == BytesOf(src, raw)
        expected == <<Description("linefeed")>>
    IN  Returned(Borrowed(src, raw),
                 IF bytes \in {<<LF>>, <<CR, LF>>} THEN st
                 ELSE IF bytes = <<CR>> THEN state_report_error(st, expected, after(raw))
                 ELSE state_report_error(st, expected, raw))

(* Basic strings. A BStrInput is [input |-> the slice still to parse,        *)
(* st |-> the State]; a checkpoint is the slice, as State is not rewound.     *)

BStrInput(rest, st) == [input |-> rest, st |-> st]

\* debug_assert_utf8!(input.input, ..) and debug_assert_utf8!(s, ..)
input_assert_utf8(src, in, s) ==
    [in EXCEPT !.st.ok = @ /\ debug_assert_utf8(src, in.input) /\ debug_assert_utf8(src, s)]

\* take_while(0..=max, set): the longest prefix of at most `max` bytes of `set`.
take_while(src, rest, set, max) ==
    LET stop == {i \in 0 .. SliceLen(rest) - 1 : Get(src, rest, i) \notin set}
        run == IF stop = {} THEN SliceLen(rest) ELSE Min(stop)
    IN  next_slice(rest, IF run > max THEN max ELSE run)

\* take_while(0.., set)
take_while0(src, rest, set) == take_while(src, rest, set, SliceLen(rest))

basic_unescaped(src, in) ==
    LET cut == take_while0(src, in.input, BASIC_UNESCAPED)
    IN  [in |-> input_assert_utf8(src, [in EXCEPT !.input = cut.rest], cut.slice),
         s |-> cut.slice]

\* char::encode_utf8, as String::push does
encode_utf8(c) ==
    IF c < 128 THEN <<c>>
    ELSE IF c < 2048 THEN <<192 + (c \div 64), 128 + (c % 64)>>
    ELSE IF c < 65536
    THEN <<224 + (c \div 4096), 128 + ((c \div 64) % 64), 128 + (c % 64)>>
    ELSE <<240 + (c \div 262144), 128 + ((c \div 4096) % 64),
           128 + ((c \div 64) % 64), 128 + (c % 64)>>

\* u32::from_str_radix(value, 16) for up to 8 hex digits. char::from_u32 is all
\* that reads the number, and it rejects every number above 10FFFF alike, so
\* those are all given as 110000.
RECURSIVE from_str_radix(_, _)
from_str_radix(digits, acc) ==
    LET b == Head(digits)
        digit == IF b \in DIGIT THEN b - 48 ELSE IF b \in 65 .. 70 THEN b - 55 ELSE b - 87
        v == acc * 16 + digit
    IN  IF digits = <<>> THEN acc
        ELSE from_str_radix(Tail(digits), IF v > 1114112 THEN 1114112 ELSE v)

\* char::from_u32(value).is_some()
is_char(value) == value <= 1114111 /\ ~(value >= 55296 /\ value <= 57343)

\* hexescape::<ES, N>: Ok(char), or Err with the input where the failing step
\* left it: rewound by `verify` when the digits are not N, after the digits
\* when they are no char.
hexescape(src, in, N) ==
    LET checked == input_assert_utf8(src, in, in.input)
        from_u32(value, in1) == [ok |-> is_char(value), c |-> value, in |-> in1]
        verify(cut) ==
            IF SliceLen(cut.slice) # N
            THEN [ok |-> FALSE, c |-> None, in |-> checked]
            ELSE from_u32(from_str_radix(BytesOf(src, cut.slice), 0),
                          input_assert_utf8(src, [checked EXCEPT !.input = cut.rest],
                                            cut.slice))
    IN  verify(take_while(src, in.input, HEXDIG, N))

\* input.state.report_error(expected, Raw::new_unchecked(substr_at(input, 0)))
input_report_substr_at(src, in, expected) ==
    [in EXCEPT !.st = report_substr_at(@, src, in.input, 0, expected)]

EscapeLiterals ==
    <<Literal("b"), Literal("f"), Literal("n"), Literal("r"), Literal("\\"),
      Literal("\""), Literal("u"), Literal("U")>>

\* escape_seq_char as it would be if it kept the letter as it is.
escape_seq_char_verbatim(src, in) ==
    [c |-> Get(src, in.input, 0), in |-> [in EXCEPT !.input = From(@, 1)]]

escape_seq_char(src, in) ==
    LET start == in.input
        none == SliceLen(start) = 0
        id == IF none THEN QUOTATION_MARK ELSE Get(src, start, 0)
        in1 == IF none
               THEN [in EXCEPT !.st = state_report_error(@, <<>>, before(start))]
               ELSE [in EXCEPT !.input = From(start, 1)]
        unicode(hex, expected) ==
            IF hex.ok THEN [c |-> hex.c, in |-> hex.in]
            ELSE [c |-> 32, in |-> input_report_substr_at(src, hex.in, expected)]
    IN  CASE id = 98 -> [c |-> 8, in |-> in1]
          [] id = 102 -> [c |-> 12, in |-> in1]
          [] id = 110 -> [c |-> 10, in |-> in1]
          [] id = 114 -> [c |-> 13, in |-> in1]
          [] id = 116 -> [c |-> 9, in |-> in1]
          [] id = 117 ->
                unicode(hexescape(src, in1, 4), <<Description("unicode 4-digit hex code")>>)
          [] id = 85 ->
                unicode(hexescape(src, in1, 8), <<Description("unicode 8-digit hex code")>>)
          [] id = ESCAPE -> [c |-> ESCAPE, in |-> in1]
          [] id = QUOTATION_MARK -> [c |-> QUOTATION_MARK, in |-> in1]
          [] OTHER ->
                [c |-> 32,
                 in |-> input_report_substr_at(src, [in1 EXCEPT !.input = start], EscapeLiterals)]

escaped(src, in) ==
    LET skip(unexpected, after_report) ==
            [c |-> 32,
             in |-> input_assert_utf8(src,
                        [after_report EXCEPT !.input = From(@, SliceLen(unexpected))],
                        in.input)]
        checked(r) == [c |-> r.c, in |-> input_assert_utf8(src, r.in, r.in.input)]
    IN  IF Get(src, in.input, 0) # ESCAPE
        THEN skip(substr_at(src, in.input, 0).raw, input_report_substr_at(src, in, <<>>))
        ELSE checked(escape_seq_char(src, [in EXCEPT !.input = From(in.input, 1)]))

\* The `while !input.input.is_empty()` loop of basic_char; `chars` is what
\* basic_chars.to_mut() holds.
RECURSIVE basic_char_loop(_, _, _)
basic_char_loop(src, in, chars) ==
    LET push_str(u, pushed) == basic_char_loop(src, u.in, pushed \o BytesOf(src, u.s))
        push(e) == push_str(basic_unescaped(src, e.in), chars \o encode_utf8(e.c))
    IN  IF SliceLen(in.input) = 0 THEN [in |-> in, chars |-> chars]
        ELSE push(escaped(src, in))

basic_char(src, in) ==
    LET to_mut(loop) == [in |-> loop.in, cow |-> Owned(loop.chars)]
        borrowed(u) ==
            IF SliceLen(u.in.input) = 0 THEN [in |-> u.in, cow |-> Borrowed(src, u.s)]
            ELSE to_mut(basic_char_loop(src, u.in, BytesOf(src, u.s)))
    IN  borrowed(basic_unescaped(src, in))

\* parse_basic_string as it would be if it always copied the decoded text.
parse_basic_string_owned(src, raw) ==
    LET copied(c) == Returned(Owned(c.cow.bytes), c.in.st)
    IN  copied(basic_char(src, BStrInput(
                   strip_suffix(src, strip_prefix(src, raw, <<QUOTATION_MARK>>).s,
                                <<QUOTATION_MARK>>).s,
                   State(raw, "basic string"))))

parse_basic_string(src, raw) ==
    LET st0 == State(raw, "basic string")
        prefix == strip_prefix(src, raw, <<QUOTATION_MARK>>)
        st1 == IF prefix.some THEN st0
               ELSE state_report_error(st0, <<Literal("\"")>>, before(raw))
        suffix == strip_suffix(src, prefix.s, <<QUOTATION_MARK>>)
        st2 == IF suffix.some THEN st1
               ELSE state_report_error(st1, <<Literal("\"")>>, after(raw))
        returned(c) == Returned(c.cow, [c.in.st EXCEPT !.ok = @ /\ SliceLen(c.in.input) = 0])
    IN  returned(basic_char(src, BStrInput(suffix.s, st2)))

(* Multi-line basic strings *)

\* trivia::newline on a BStrInput: Ok(s) with the newline taken, or
\* Err(Backtrack) with nothing taken. A `\r` with no `\n` behind it is
\* reported at input[1..1] and taken as a newline.
newline(src, in) ==
    LET n == SliceLen(in.input)
        is_lf == n > 0 /\ Get(src, in.input, 0) = LF
        is_cr == n > 0 /\ Get(src, in.input, 0) = CR
        is_crlf == is_cr /\ n > 1 /\ Get(src, in.input, 1) = LF
        unexpected == Slice(in.input.start + 1, in.input.start + 1)
        in1 == IF is_cr /\ ~is_crlf
               THEN [in EXCEPT !.st =
                        state_report_error(@, <<Description("linefeed")>>, unexpected)]
               ELSE in
        cut == next_slice(in.input, IF is_crlf THEN 2 ELSE 1)
    IN  IF is_lf \/ is_cr
        THEN [ok |-> TRUE, s |-> cut.slice,
              in |-> input_assert_utf8(src, [in1 EXCEPT !.input = cut.rest], cut.slice)]
        ELSE [ok |-> FALSE, s |-> Slice(None, None), in |-> in]

\* repeat(1.., (take_while(0.., WSCHAR), newline)): `count` rounds have
\* succeeded; the round that fails leaves the input where it started.
RECURSIVE mlb_escaped_nl_repeat(_, _, _)
mlb_escaped_nl_repeat(src, in, count) ==
    LET round(nl) ==
            IF nl.ok THEN mlb_escaped_nl_repeat(src, nl.in, count + 1)
            ELSE [count |-> count, in |-> in]
    IN  round(newline(src, [in EXCEPT !.input = take_while0(src, @, WSCHAR).rest]))

\* mlb_escaped_nl as it would be if it never matched.
mlb_escaped_nl_never(src, in) == [ok |-> FALSE, in |-> in]

\* mlb_escaped_nl, under the `opt` of ml_basic_body: on Err the input is
\* where it was.
mlb_escaped_nl(src, in) ==
    LET trailing(rounds) ==
            IF Get(src, in.input, 0) = ESCAPE /\ rounds.count >= 1
            THEN [ok |-> TRUE,
                  in |-> input_assert_utf8(src,
                             [rounds.in EXCEPT !.input = take_while0(src, @, WSCHAR).rest],
                             in.input)]
            ELSE [ok |-> FALSE, in |-> input_assert_utf8(src, in, in.input)]
    IN  trailing(mlb_escaped_nl_repeat(src, [in EXCEPT !.input = From(in.input, 1)], 0))

mlb_unescaped(src, in) ==
    LET cut == take_while0(src, in.input, MLB_UNESCAPED \cup {QUOTATION_MARK, LF})
    IN  [in |-> input_assert_utf8(src, [in EXCEPT !.input = cut.rest], cut.slice),
         s |-> cut.slice]

\* The `while let Some(b) = input.input.first().copied()` loop of
\* ml_basic_body; `chars` is what basic_chars.to_mut() holds.
RECURSIVE ml_basic_body_loop(_, _, _)
ml_basic_body_loop(src, in, chars) ==
    LET push_str(u, pushed) == ml_basic_body_loop(src, u.in, pushed \o BytesOf(src, u.s))
        on_newline(nl) == push_str(mlb_unescaped(src, nl.in), chars \o BytesOf(src, nl.s))
        push(e) == push_str(mlb_unescaped(src, e.in), chars \o encode_utf8(e.c))
        on_escape(escaped_nl) ==
            IF escaped_nl.ok THEN push_str(mlb_unescaped(src, escaped_nl.in), chars)
            ELSE push(escaped(src, in))
        skip(unexpected, after_report) ==
            push_str(mlb_unescaped(src, [after_report EXCEPT
                                            !.input = From(@, SliceLen(unexpected))]),
                     chars)
        b == Get(src, in.input, 0)
    IN  IF SliceLen(in.input) = 0 THEN [in |-> in, chars |-> chars]
        ELSE CASE b = CR -> on_newline(newline(src, in))
               [] b = ESCAPE -> on_escape(mlb_escaped_nl(src, in))
               [] OTHER -> skip(substr_at(src, in.input, 0).raw,
                                input_report_substr_at(src, in, <<>>))

ml_basic_body(src, in) ==
    LET to_mut(loop) ==
            [in |-> input_assert_utf8(src, loop.in, loop.in.input), cow |-> Owned(loop.chars)]
        borrowed(u) ==
            IF SliceLen(u.in.input) = 0 THEN [in |-> u.in, cow |-> Borrowed(src, u.s)]
            ELSE to_mut(ml_basic_body_loop(src, u.in, BytesOf(src, u.s)))
    IN  borrowed(mlb_unescaped(src, in))

parse_ml_basic_string(src, raw) ==
    LET st0 == State(raw, "multi-line basic string")
        delim == <<QUOTATION_MARK, QUOTATION_MARK, QUOTATION_MARK>>
        prefix == strip_prefix(src, raw, delim)
        st1 == IF prefix.some THEN st0
               ELSE state_report_error(st0, <<Literal("\"")>>, before(raw))
        body == strip_start_newline(src, prefix.s)
        suffix == strip_suffix(src, body, delim)
        st2 == IF suffix.some THEN st1
               ELSE state_report_error(st1, <<Literal("\"")>>, after(raw))
        s == IF suffix.some THEN suffix.s
             ELSE trim_end_matches(src, body, QUOTATION_MARK)
        returned(c) == Returned(c.cow, [c.in.st EXCEPT !.ok = @ /\ SliceLen(c.in.input) = 0])
    IN  returned(ml_basic_body(src, BStrInput(s, st2)))

----------------------------------------------------------------------------
(* Error sinks: error.rs *)

\* How many errors are reported to the sinks.
MaxReports == 3

\* Option<ParseError>: None is <<>>, Some(e) is <<e>>.
NoError == <<>>
Some(e) == <<e>>

\* impl ErrorSink for (): `fn report_error(&mut self, _error) {}`
unit_report_error(self, error) == self

\* Option::insert in place of Option::get_or_insert
option_report_error_insert(self, error) == Some(error)

\* impl ErrorSink for Option<ParseError>: `self.get_or_insert(error);`
option_report_error(self, error) == IF self = NoError THEN Some(error) ELSE self

\* impl ErrorSink for Vec<ParseError>: `self.push(error)`
vec_report_error(self, error) == Append(self, error)

\* A (), a None and a Vec::new().
NewSinks == [unit |-> "()", option |-> NoError, vec |-> <<>>]

\* No validator has been called; a validator has panicked, returning nothing.
NoCall == [validator |-> "None"]
NoValue == [owned |-> FALSE, bytes |-> <<>>, slice |-> Slice(None, None)]

\* Errors as the parser builds them, over a one-line input of four bytes.
SinkErrors ==
    {
      ParseError(Slice(0, 1), "table", <<Literal("[")>>, Slice(0, 0)),
      ParseError(Slice(0, 1), "table", <<Description("key")>>, Slice(0, 0)),
      ParseError(Slice(0, 4), "key-value pair", <<Description("key")>>, Slice(0, 0)),
      ParseError(Slice(1, 3), "comment", <<>>, Slice(2, 3)),
      ParseError(Slice(1, 3), "basic string", <<Literal("\"")>>, Slice(3, 3))
    }

----------------------------------------------------------------------------
(* Inputs *)

\* The characters inputs are built from, each as its UTF-8 bytes: the bytes the
\* lexer and the parser tell apart (`,`, `{`, `}` are handled like `=` by both,
\* a tab like a space), `a`, and the two-byte character U+00E9.
Chars ==
    {<<b>> : b \in {DOT, EQUALS, LEFT_SQUARE_BRACKET, RIGHT_SQUARE_BRACKET, SPACE,
                    COMMENT_START_SYMBOL, CR, LF, APOSTROPHE, QUOTATION_MARK, ESCAPE,
                    RIGHT_PAREN, 97}}
    \cup {<<195, 169>>}

RECURSIVE StringsOf(_)
StringsOf(n) ==
    IF n = 0 THEN {<<>>}
    ELSE LET shorter == StringsOf(n - 1)
         IN  shorter \cup {s \o c : s \in shorter, c \in Chars}

\* The inputs of the documented scenarios and tests, byte for byte.
Scenarios ==
    {
      <<102, 111, 111, 32, 61, 32, 52, 50, 10>>,    \* foo = 42\n
      <<91, 97, 46, 98, 93, 10>>,    \* [a.b]\n
      <<91, 91, 120, 93, 93, 10>>,    \* [[x]]\n
      <<107, 32, 61, 32, 10>>,    \* k = \n
      <<97, 32, 46, 32, 98, 9, 61, 123, 125, 44>>,    \* a . b\t={},
      <<39, 39, 39, 39, 39, 97, 39, 39, 39, 39, 39, 39>>,    \* '''''a''''''
      <<97, 32, 46, 32, 98, 32, 46, 32, 99, 32>>,    \* a . b . c and a space
      <<97, 46, 98, 32, 46>>,    \* a.b .
      <<97, 46, 32, 61>>,    \* a. =
      <<91, 91, 97, 93, 10, 91, 98, 93, 10>>,    \* [[a]\n[b]\n
      <<91, 97, 46, 98, 10>>,    \* [a.b\n
      <<61, 97, 32, 98, 10, 99>>,    \* =a b\nc
      <<91, 97, 93, 32, 98, 46, 99, 32, 35, 100, 10>>,    \* [a] b.c #d\n
      <<91, 91, 97, 46, 98, 93, 10, 97>>,    \* [[a.b]\na
      <<39, 39, 39, 39, 39, 39, 39, 39, 39>>,    \* '''''''''
      <<34, 34, 34, 92, 34, 34, 34, 34, 34, 34>>,    \* """\""""""
      <<34, 92, 92, 34, 92, 34, 97>>,    \* "\\"\"a
      <<91, 226, 130, 172, 93, 35, 195, 169, 13, 10>>    \* [U+20AC]#U+00E9\r\n
    }

Inputs == StringsOf(MaxLen) \cup Scenarios

\* The characters the raws handed to the validators are built from: the
\* delimiters, the escape, the newline bytes, a space, `#`, `b` (an escape
\* letter, a hex digit and a key character), `u`, the control character U+0001
\* and the two-byte character U+00E9.
RawChars ==
    {<<b>> : b \in {APOSTROPHE, QUOTATION_MARK, ESCAPE, LF, CR, SPACE,
                    COMMENT_START_SYMBOL, 98, 117, 1}}
    \cup {<<195, 169>>}

RECURSIVE RawStringsOf(_)
RawStringsOf(n) ==
    IF n = 0 THEN {<<>>}
    ELSE LET shorter == RawStringsOf(n - 1)
         IN  shorter \cup {s \o c : s \in shorter, c \in RawChars}

\* The raws: every string of up to MaxLen characters; the basic and multi-line
\* basic strings whose content is a run, one escape sequence and a run; the
\* multi-line basic strings with a line continuation between two runs; the
\* raws of the tests of parser/strings.rs that these leave out; the documents.
RawInputs ==
    LET \* What stands before and after an escape sequence: nothing, `a`, U+00E9.
        Runs == {<<>>, <<97>>, <<195, 169>>}
        \* The letters after the backslash: b f n r t \ ", and z, `-`, U+0001,
        \* which are no escape.
        EscapeLetters == {98, 102, 110, 114, 116, ESCAPE, QUOTATION_MARK, 122, 45, 1}
        \* The digits after `\u`: 00E9, D800, DFFF, E000, 12, none.
        Hex4 ==
            {<<48, 48, 69, 57>>, <<68, 56, 48, 48>>, <<68, 70, 70, 70>>,
             <<69, 48, 48, 48>>, <<49, 50>>, <<>>}
        \* The digits after `\U`: 0002070E, 0010FFFF, 00110000, 0000D800,
        \* FFFFFFFF, 00E9.
        Hex8 ==
            {<<48, 48, 48, 50, 48, 55, 48, 69>>, <<48, 48, 49, 48, 70, 70, 70, 70>>,
             <<48, 48, 49, 49, 48, 48, 48, 48>>, <<48, 48, 48, 48, 68, 56, 48, 48>>,
             <<70, 70, 70, 70, 70, 70, 70, 70>>, <<48, 48, 69, 57>>}
        EscapeBodies ==
            {pre \o <<ESCAPE, x>> \o post :
                pre \in Runs, post \in Runs, x \in EscapeLetters}
            \cup {pre \o <<ESCAPE, 117>> \o d \o post :
                     pre \in Runs, post \in Runs, d \in Hex4}
            \cup {pre \o <<ESCAPE, 85>> \o d \o post :
                     pre \in Runs, post \in Runs, d \in Hex8}
        Tests ==
            {
              <<39, 39, 39, 13, 39, 39, 39>>,    \* '''\r'''
              <<39, 39, 39, 39, 97, 39, 39, 39, 39>>,    \* ''''a''''
              <<34, 97, 10, 98, 34>>,    \* "a\nb"
              <<34, 34, 34, 10, 97, 32, 92, 10, 10, 32, 98, 34, 34, 34>>,    \* """\na \\n\n b"""
              <<34, 34, 34, 32, 92, 34, 34, 34, 32, 34, 34, 34>>,    \* """ \""" """
              <<34, 34, 34, 97, 13, 34, 34, 34>>,    \* """a\r"""
              <<34, 34, 34, 32, 32, 34, 34>>,    \* """  ""
              <<35, 97, 1, 195, 169>>,    \* #a U+0001 U+00E9
              <<39, 39, 39, 10, 97, 10, 39, 39, 39>>,    \* '''\na\n'''
              <<39, 39, 39, 13, 10, 10, 97, 39, 39, 39>>,    \* '''\r\n\na'''
              <<39, 39, 39, 97, 39, 39, 39, 39, 39>>    \* '''a'''''
            }
        \* Line continuations: a backslash, spaces or tabs, a newline, and a
        \* mix of spaces, tabs and newlines, between two runs.
        Continuations ==
            {pre \o <<ESCAPE>> \o ws \o nl \o mix \o post :
                pre \in Runs, post \in Runs, ws \in {<<>>, <<SPACE>>, <<TAB, SPACE>>},
                nl \in {<<LF>>, <<CR, LF>>},
                mix \in {<<>>, <<LF, LF, SPACE, SPACE>>, <<TAB, CR, LF, SPACE>>, <<SPACE>>}}
        delim == <<QUOTATION_MARK, QUOTATION_MARK, QUOTATION_MARK>>
    IN  RawStringsOf(MaxLen)
        \cup {<<QUOTATION_MARK>> \o body \o <<QUOTATION_MARK>> : body \in EscapeBodies}
        \cup {delim \o body \o delim : body \in EscapeBodies \cup Continuations}
        \cup Tests
        \cup Scenarios

----------------------------------------------------------------------------
(* Document::new(input), Document::lex(), and parse_tokens not yet called *)

Init ==
    /\ input \in Inputs
    /\ stream = Slice(0, Len(input))
    /\ tokens = <<>>
    /\ phase = "lex"
    /\ pos = 0
    /\ events = <<>>
    /\ errors = <<>>
    /\ sinks = NewSinks
    /\ reported = <<>>
    /\ call = NoCall

----------------------------------------------------------------------------
(* Lexer::next *)

\* Lexer::next is called and the stream is not empty. The lexer can be pulled
\* for ever; the calls after the one that returns token number Len(input) + 1
\* are not followed.
CanLex ==
    /\ phase = "lex"
    /\ SliceLen(stream) > 0
    /\ Len(tokens) <= Len(input)

\* The first byte of the stream, on which Lexer::next dispatches.
Peek == Get(input, stream, 0)

\* Lexer::next returns Some(r.token), unless one of the debug_assert_utf8!
\* checks of Lexer::next or of the helper fails.
Lexed(r) ==
    /\ IF /\ debug_assert_utf8(input, stream)
          /\ r.ok
          /\ debug_assert_utf8(input, r.stream)
       THEN /\ tokens' = Append(tokens, r.token)
            /\ stream' = r.stream
            /\ phase' = "lex"
       ELSE /\ phase' = "panic_utf8"
            /\ UNCHANGED <<tokens, stream>>
    /\ UNCHANGED <<input, pos, events, errors, sinks, reported, call>>

LexAsciiChar ==
    /\ CanLex
    /\ Peek \in DOMAIN AsciiKind
    /\ Lexed(lex_ascii_char(input, stream, AsciiKind[Peek]))

LexWhitespace ==
    /\ CanLex
    /\ Peek \in WSCHAR
    /\ Lexed(lex_whitespace(input, stream))

LexComment ==
    /\ CanLex
    /\ Peek = COMMENT_START_SYMBOL
    /\ Lexed(lex_comment(input, stream))

LexCrlf ==
    /\ CanLex
    /\ Peek = CR
    /\ Lexed(lex_crlf(input, stream))

LexLiteralString ==
    /\ CanLex
    /\ Peek = APOSTROPHE
    /\ ~starts_with3(input, stream, APOSTROPHE)
    /\ Lexed(lex_literal_string(input, stream))

LexMlLiteralString ==
    /\ CanLex
    /\ Peek = APOSTROPHE
    /\ starts_with3(input, stream, APOSTROPHE)
    /\ Lexed(lex_ml_literal_string(input, stream))

LexBasicString ==
    /\ CanLex
    /\ Peek = QUOTATION_MARK
    /\ ~starts_with3(input, stream, QUOTATION_MARK)
    /\ Lexed(lex_basic_string(input, stream))

LexMlBasicString ==
    /\ CanLex
    /\ Peek = QUOTATION_MARK
    /\ starts_with3(input, stream, QUOTATION_MARK)
    /\ Lexed(lex_ml_basic_string(input, stream))

LexAtom ==
    /\ CanLex
    /\ Peek \notin DOMAIN AsciiKind
    /\ Peek \notin WSCHAR \cup {COMMENT_START_SYMBOL, CR, APOSTROPHE, QUOTATION_MARK}
    /\ Lexed(lex_atom(input, stream))

\* `self.stream.first()?`: the stream is empty, Lexer::next returns None, and
\* the collected tokens go to parse_tokens.
LexerEnd ==
    /\ phase = "lex"
    /\ SliceLen(stream) = 0
    /\ phase' = "parse"
    /\ UNCHANGED <<input, stream, tokens, pos, events, errors, sinks, reported, call>>

----------------------------------------------------------------------------
(* parse_tokens: one iteration of the loop of `document` *)

\* The parser state before the iteration.
P == [pos |-> pos, events |-> events, errors |-> errors, ok |-> TRUE]

\* `while let Some(current_token) = tokens.next_token()`
Iterate == phase = "parse" /\ has_token(tokens, P)
current_token == first(tokens, P)
Taken == next_token(P)

\* The handler has returned, leaving the parser state q.
Handled(q) ==
    /\ pos' = q.pos
    /\ events' = q.events
    /\ errors' = q.errors
    /\ phase' = IF q.ok THEN "parse" ELSE "panic_append"
    /\ UNCHANGED <<input, stream, tokens, sinks, reported, call>>

OnTable ==
    /\ Iterate
    /\ current_token.kind = "LeftSquareBracket"
    /\ Handled(on_table(tokens, Taken, current_token))

OnMissingOnStdTable ==
    /\ Iterate
    /\ current_token.kind = "RightSquareBracket"
    /\ Handled(on_missing_on_std_table(tokens, Taken, current_token))

OnExpressionKey ==
    /\ Iterate
    /\ current_token.kind \in KeyKinds
    /\ Handled(on_expression_key(tokens, Taken, current_token,
                                 string_kind(current_token.kind)))

OnMissingExpressionKey ==
    /\ Iterate
    /\ current_token.kind \in {"Dot", "Equals", "Comma", "RightCurlyBracket",
                               "LeftCurlyBracket"}
    /\ Handled(on_missing_expression_key(tokens, Taken, current_token))

OnDecor ==
    /\ Iterate
    /\ current_token.kind \in {"Whitespace", "Newline"}
    /\ Handled(on_decor(Taken, current_token))

OnComment ==
    /\ Iterate
    /\ current_token.kind = "Comment"
    /\ Handled(on_comment(tokens, Taken, current_token))

\* No token is left: `document` and parse_tokens return.
DocumentEnd ==
    /\ phase = "parse"
    /\ ~has_token(tokens, P)
    /\ phase' = "done"
    /\ UNCHANGED <<input, stream, tokens, pos, events, errors, sinks, reported, call>>

----------------------------------------------------------------------------

LexerNext ==
    \/ LexAsciiChar
    \/ LexWhitespace
    \/ LexComment
    \/ LexCrlf
    \/ LexLiteralString
    \/ LexMlLiteralString
    \/ LexBasicString
    \/ LexMlBasicString
    \/ LexAtom

Document ==
    \/ OnTable
    \/ OnMissingOnStdTable
    \/ OnExpressionKey
    \/ OnMissingExpressionKey
    \/ OnDecor
    \/ OnComment

Next ==
    \/ LexerNext
    \/ LexerEnd
    \/ Document
    \/ DocumentEnd

Spec == Init /\ [][Next]_vars

----------------------------------------------------------------------------
(* The validators, called on a raw *)

\* A raw has been made of the input and lexed, and no validator called yet.
ValidatorInit ==
    /\ input \in RawInputs
    /\ stream = Slice(0, Len(input))
    /\ tokens = <<>>
    /\ phase = "lex"
    /\ pos = 0
    /\ events = <<>>
    /\ errors = <<>>
    /\ sinks = NewSinks
    /\ reported = <<>>
    /\ call = NoCall

\* The raws a validator is called on: Raw::new_unchecked(input), and
\* token.raw() for the lexed tokens of the validator's kind.
Raws(kind) ==
    {Slice(0, Len(input))} \cup {tokens[i].raw : i \in {j \in DOMAIN tokens : tokens[j].kind = kind}}

\* The validator has been called with a Vec<ParseError> as its sink, and has
\* returned r.value, or one of its debug assertions has failed.
Validated(validator, raw, r) ==
    /\ call' = [validator |-> validator, raw |-> raw,
                value |-> IF r.ok THEN r.value ELSE NoValue]
    /\ errors' = r.errors
    /\ phase' = IF r.ok THEN "returned" ELSE "panic_validator"
    /\ UNCHANGED <<input, stream, tokens, pos, events, sinks, reported>>

ParseUnquotedKey ==
    /\ phase = "parse"
    /\ \E raw \in Raws("Atom") :
          Validated("parse_unquoted_key", raw, parse_unquoted_key(input, raw))

ParseLiteralString ==
    /\ phase = "parse"
    /\ \E raw \in Raws("LiteralString") :
          Validated("parse_literal_string", raw, parse_literal_string(input, raw))

ParseMlLiteralString ==
    /\ phase = "parse"
    /\ \E raw \in Raws("MlLiteralString") :
          Validated("parse_ml_literal_string", raw, parse_ml_literal_string(input, raw))

ParseBasicString ==
    /\ phase = "parse"
    /\ \E raw \in Raws("BasicString") :
          Validated("parse_basic_string", raw, parse_basic_string(input, raw))

ParseMlBasicString ==
    /\ phase = "parse"
    /\ \E raw \in Raws("MlBasicString") :
          Validated("parse_ml_basic_string", raw, parse_ml_basic_string(input, raw))

ParseComment ==
    /\ phase = "parse"
    /\ \E raw \in Raws("Comment") :
          Validated("parse_comment", raw, parse_comment(input, raw))

ParseNewline ==
    /\ phase = "parse"
    /\ \E raw \in Raws("Newline") :
          Validated("parse_newline", raw, parse_newline(input, raw))

ValidatorNext ==
    \/ LexerNext
    \/ LexerEnd
    \/ ParseUnquotedKey
    \/ ParseLiteralString
    \/ ParseMlLiteralString
    \/ ParseBasicString
    \/ ParseMlBasicString
    \/ ParseComment
    \/ ParseNewline

ValidatorSpec == ValidatorInit /\ [][ValidatorNext]_vars

----------------------------------------------------------------------------
(* ErrorSink::report_error *)

\* The three sinks as constructed, with nothing reported.
SinkInit ==
    /\ input = <<>>
    /\ stream = Slice(0, 0)
    /\ tokens = <<>>
    /\ phase = "report"
    /\ pos = 0
    /\ events = <<>>
    /\ errors = <<>>
    /\ sinks = NewSinks
    /\ reported = <<>>
    /\ call = NoCall

\* report_error(error) is called on each sink, through `impl ErrorSink for &mut S`.
ReportError ==
    /\ phase = "report"
    /\ Len(reported) < MaxReports
    /\ \E error \in SinkErrors :
          /\ sinks' = [unit |-> unit_report_error(sinks.unit, error),
                       option |-> option_report_error(sinks.option, error),
                       vec |-> vec_report_error(sinks.vec, error)]
          /\ reported' = Append(reported, error)
    /\ UNCHANGED <<input, stream, tokens, phase, pos, events, errors, call>>

SinkNext == ReportError

SinkSpec == SinkInit /\ [][SinkNext]_vars

----------------------------------------------------------------------------
(* Properties of the lexer *)

\* The bytes of the raws of `items` (tokens or events), concatenated in order.
RECURSIVE RawBytes(_)
RawBytes(items) ==
    IF items = <<>> THEN <<>>
    ELSE BytesOf(input, Head(items).raw) \o RawBytes(Tail(items))

\* Each raw starts where the one before it ends, the first at offset `from`.
Contiguous(items, from) ==
    \A i \in DOMAIN items :
        items[i].raw.start = (IF i = 1 THEN from ELSE items[i - 1].raw.end)

\* str::is_char_boundary
is_char_boundary(src, i) ==
    \/ i = 0
    \/ i = Len(src)
    \/ i < Len(src) /\ ~IsCont(src[i + 1])

\* C1: the tokens tile the input. After every call to Lexer::next the raws of
\* the tokens returned so far, followed by the lexer's remaining stream, are the
\* input byte for byte, each token starting where the previous one ends; so once
\* the stream is empty the token raws alone are the input.
C1_TokensTileInput ==
    /\ RawBytes(tokens) \o BytesOf(input, stream) = input
    /\ Contiguous(tokens, 0)
    /\ stream.start = (IF tokens = <<>> THEN 0 ELSE tokens[Len(tokens)].raw.end)
    /\ stream.end = Len(input)

\* The lexer is exhausted after returning several tokens, one of them longer
\* than a byte.
C1_Witness ==
    /\ phase = "parse"
    /\ Len(tokens) >= 3
    /\ \E i \in DOMAIN tokens : SliceLen(tokens[i].raw) >= 2

\* C2: every token Lexer::next returns consumes at least one byte, so an input
\* of n bytes yields at most n tokens.
C2_EveryTokenConsumesAByte ==
    /\ \A i \in DOMAIN tokens : SliceLen(tokens[i].raw) >= 1
    /\ Len(tokens) <= Len(input)

\* C3: no debug_assert_utf8! fails, and every offset at which a token starts or
\* ends, and at which the remaining stream starts, is a character boundary of
\* the input.
C3_TokensOnCharBoundaries ==
    /\ phase # "panic_utf8"
    /\ is_char_boundary(input, stream.start)
    /\ \A i \in DOMAIN tokens :
          /\ is_char_boundary(input, tokens[i].raw.start)
          /\ is_char_boundary(input, tokens[i].raw.end)

\* A token holding a multi-byte character has been returned, and another token
\* after it.
C3_Witness ==
    \E i \in DOMAIN tokens :
        /\ i < Len(tokens)
        /\ \E k \in tokens[i].raw.start + 1 .. tokens[i].raw.end : input[k] >= 128

----------------------------------------------------------------------------
(* Properties of the event parser *)

\* The token kinds for which the `match` of `document` has an arm.
DocumentKinds ==
    {"LeftSquareBracket", "RightSquareBracket", "Dot", "Equals", "Comma",
     "RightCurlyBracket", "LeftCurlyBracket", "Whitespace", "Newline", "Comment"}
    \cup KeyKinds

\* C4: parse_tokens terminates and returns only at the end of the slice. Every
\* iteration of the loop of `document` takes at least one token and never more
\* than there are; as long as a token is left, `document` has a handler for it;
\* and when parse_tokens has returned every token has been taken.
C4_ParseTokensConsumesEverything ==
    /\ [][phase = "parse" /\ phase' = "parse" => pos < pos' /\ pos' <= Len(tokens)]_vars
    /\ [](phase = "parse" /\ pos < Len(tokens) => tokens[pos + 1].kind \in DocumentKinds)
    /\ [](phase = "done" => pos = Len(tokens))

\* parse_tokens has returned from a slice of several tokens after reporting an
\* error.
C4_Witness ==
    /\ phase = "done"
    /\ Len(tokens) >= 3
    /\ errors # <<>>

\* C5: every token parse_tokens has taken lies within the raw of some event.
C5_EveryTokenHasAnEvent ==
    phase \in {"parse", "done"} =>
        \A i \in 1 .. pos :
            \E j \in DOMAIN events :
                /\ events[j].raw.start <= tokens[i].raw.start
                /\ tokens[i].raw.end <= events[j].raw.end

\* C6: events arrive in source order: no event's raw starts before the end of
\* the raw of the event before it.
C6_EventsInSourceOrder ==
    \A j \in 1 .. Len(events) - 1 : events[j].raw.end <= events[j + 1].raw.start

\* C7: when parse_tokens has returned, the raws of the events, concatenated in
\* the order they were received, are the input.
C7_EventsRoundTrip ==
    phase = "done" => RawBytes(events) = input

----------------------------------------------------------------------------
(* Well-formed and malformed documents *)

(* A recognizer of the line structure of TOML v1.0.0, run over the tokens:    *)
(*   toml = expression *( newline expression )                                *)
(*   expression = ws [ comment ] / ws keyval ws [ comment ]                   *)
(*              / ws table ws [ comment ]                                     *)
(* with values limited to one Atom or one string token. It answers "ok" for a *)
(* document of that shape, "bad" for one no TOML parser accepts (a key with   *)
(* no `=`, a `=` with no value, a header with no key, an unclosed header,     *)
(* text after a header, a line starting with `.`, `=`, `]`, ...), and         *)
(* "unknown" for what it does not judge (what follows a value other than      *)
(* trivia: arrays, inline tables, floats and dates lexed as several tokens).  *)

Digits == 48 .. 57
BareKeyBytes == Digits \cup (65 .. 90) \cup (97 .. 122) \cup {45, 95}

\* A single-line string token with both delimiters around plain characters.
ClosedPlainString(tok) ==
    LET bytes == BytesOf(input, tok.raw)
        quote == IF tok.kind = "LiteralString" THEN APOSTROPHE ELSE QUOTATION_MARK
    IN  /\ tok.kind \in {"LiteralString", "BasicString"}
        /\ Len(bytes) >= 2
        /\ bytes[1] = quote
        /\ bytes[Len(bytes)] = quote
        /\ \A k \in 2 .. Len(bytes) - 1 :
              bytes[k] >= 32 /\ bytes[k] # 127 /\ bytes[k] \notin {quote, ESCAPE}

\* A token that is a valid key: a bare key or a quoted key.
ValidKey(tok) ==
    \/ /\ tok.kind = "Atom"
       /\ SliceLen(tok.raw) >= 1
       /\ \A k \in tok.raw.start + 1 .. tok.raw.end : input[k] \in BareKeyBytes
    \/ ClosedPlainString(tok)

\* A token that is a valid value: a decimal integer or a string.
ValidValue(tok) ==
    \/ /\ tok.kind = "Atom"
       /\ SliceLen(tok.raw) >= 1
       /\ \A k \in tok.raw.start + 1 .. tok.raw.end : input[k] \in Digits
       /\ SliceLen(tok.raw) >= 2 => input[tok.raw.start + 1] # 48
    \/ ClosedPlainString(tok)

ValidNewline(tok) == BytesOf(input, tok.raw) \in {<<LF>>, <<CR, LF>>}

ValidComment(tok) ==
    \A k \in tok.raw.start + 1 .. tok.raw.end :
        input[k] = TAB \/ (input[k] >= 32 /\ input[k] # 127)

\* One step of the recognizer. With `strict`, keys, values, newlines and
\* comments must also be valid in content; a token that is not makes the
\* answer "unknown". Without, only the kinds of the tokens count.
LineStep(state, tok, strict) ==
    LET k == tok.kind
        key == k \in {"Atom", "LiteralString", "BasicString"}
        value == k \in KeyKinds
        content_ok ==
            CASE k = "Newline" -> ValidNewline(tok)
              [] k = "Comment" -> ValidComment(tok)
              [] state = "eq" /\ value -> ValidValue(tok)
              [] key -> ValidKey(tok)
              [] OTHER -> TRUE
        next ==
            CASE state \in {"bad", "unknown"} -> state
              [] state = "start" ->
                    CASE k = "Whitespace" -> "start"
                      [] k = "Newline" -> "start"
                      [] k = "Comment" -> "comment"
                      [] key -> "key"
                      [] k = "LeftSquareBracket" -> "open"
                      [] OTHER -> "bad"
              [] state = "comment" ->
                    IF k = "Newline" THEN "start" ELSE "bad"
              [] state = "key" ->
                    CASE k = "Whitespace" -> "key"
                      [] k = "Dot" -> "dot"
                      [] k = "Equals" -> "eq"
                      [] OTHER -> "bad"
              [] state = "dot" ->
                    CASE k = "Whitespace" -> "dot"
                      [] key -> "key"
                      [] OTHER -> "bad"
              [] state = "eq" ->
                    CASE k = "Whitespace" -> "eq"
                      [] value -> "value"
                      [] k \in {"Newline", "Comment"} -> "bad"
                      [] OTHER -> "unknown"
              [] state = "value" ->
                    CASE k = "Whitespace" -> "value"
                      [] k = "Newline" -> "start"
                      [] k = "Comment" -> "comment"
                      [] OTHER -> "unknown"
              [] state = "open" ->
                    CASE k = "Whitespace" -> "table"
                      [] k = "LeftSquareBracket" -> "array"
                      [] key -> "table key"
                      [] OTHER -> "bad"
              [] state \in {"table", "table dot"} ->
                    CASE k = "Whitespace" -> state
                      [] key -> "table key"
                      [] OTHER -> "bad"
              [] state = "table key" ->
                    CASE k = "Whitespace" -> "table key"
                      [] k = "Dot" -> "table dot"
                      [] k = "RightSquareBracket" -> "closed"
                      [] OTHER -> "bad"
              [] state \in {"array", "array dot"} ->
                    CASE k = "Whitespace" -> state
                      [] key -> "array key"
                      [] OTHER -> "bad"
              [] state = "array key" ->
                    CASE k = "Whitespace" -> "array key"
                      [] k = "Dot" -> "array dot"
                      [] k = "RightSquareBracket" -> "array close"
                      [] OTHER -> "bad"
              [] state = "array close" ->
                    IF k = "RightSquareBracket" THEN "closed" ELSE "bad"
              [] state = "closed" ->
                    CASE k = "Whitespace" -> "closed"
                      [] k = "Newline" -> "start"
                      [] k = "Comment" -> "comment"
                      [] OTHER -> "bad"
    IN  IF strict /\ next \notin {"bad", "unknown"} /\ ~content_ok THEN "unknown" ELSE next

RECURSIVE Recognize(_, _, _)
Recognize(state, toks, strict) ==
    IF toks = <<>>
    THEN IF state \in {"start", "comment", "value", "closed"} THEN "ok"
         ELSE IF state = "unknown" THEN "unknown" ELSE "bad"
    ELSE Recognize(LineStep(state, Head(toks), strict), Tail(toks), strict)

\* The input is a well-formed TOML document (of key = value lines, dotted keys,
\* table and array-table headers, comments and blank lines).
WellFormed == Recognize("start", tokens, TRUE) = "ok"

\* The input is not a well-formed TOML document.
Malformed == Recognize("start", tokens, FALSE) = "bad"

\* The events cover every byte of the input.
EventsCoverInput ==
    \A k \in 0 .. Len(input) - 1 :
        \E j \in DOMAIN events : events[j].raw.start <= k /\ k < events[j].raw.end

\* C8: on a well-formed document parse_tokens reports no diagnostic and emits
\* no Error event.
C8_WellFormedHasNoDiagnostics ==
    phase = "done" /\ WellFormed =>
        /\ errors = <<>>
        /\ \A j \in DOMAIN events : events[j].kind # "Error"

\* C9: on a malformed document parse_tokens reports at least one diagnostic,
\* and the events still cover every byte of the input.
C9_MalformedHasDiagnostic ==
    phase = "done" /\ Malformed =>
        /\ errors # <<>>
        /\ EventsCoverInput

\* The kinds of the tokens of a line <atom> <whitespace> = <whitespace> <atom>
\* <newline>.
KeyValLine == <<"Atom", "Whitespace", "Equals", "Whitespace", "Atom", "Newline">>

\* C10: for a key-value line such as `foo = 42\n` parse_tokens emits
\* SimpleKey(Unquoted), Decor, KeyValSep, Decor, Value(Unquoted), Decor, each
\* with the raw of its token, and reports no diagnostic.
C10_KeyValueLineEvents ==
    phase = "done" /\ [i \in DOMAIN tokens |-> tokens[i].kind] = KeyValLine =>
        /\ errors = <<>>
        /\ events = << Event("SimpleKey", "Unquoted", tokens[1].raw),
                       Event("Decor", NoKind, tokens[2].raw),
                       Event("KeyValSep", NoKind, tokens[3].raw),
                       Event("Decor", NoKind, tokens[4].raw),
                       Event("Value", "Unquoted", tokens[5].raw),
                       Event("Decor", NoKind, tokens[6].raw) >>

----------------------------------------------------------------------------
(* Keys and table headers *)

\* The kinds of the tokens, in order.
Kinds(toks) == [i \in DOMAIN toks |-> toks[i].kind]

\* toks is k1 . k2 . ... . kn: key tokens separated by single Dot tokens.
IsDottedKey(toks) ==
    /\ Len(toks) % 2 = 1
    /\ \A i \in DOMAIN toks :
          IF i % 2 = 1 THEN toks[i].kind \in KeyKinds ELSE toks[i].kind = "Dot"

\* The events the claim gives a dotted key: a SimpleKey for every key token,
\* with that token's raw and StringKind, and a KeySep for every dot.
DottedKeyEvents(toks) ==
    [i \in DOMAIN toks |->
        IF i % 2 = 1
        THEN Event("SimpleKey", string_kind(toks[i].kind), toks[i].raw)
        ELSE Event("KeySep", NoKind, toks[i].raw)]

\* C11: a dotted key k1.k2...kn yields n SimpleKey events separated by n-1
\* KeySep events, the i-th SimpleKey with the raw and the StringKind of the i-th
\* key token, both at expression level (the whole input is the key) and in a
\* header `[k1...kn]\n`, where the events are StdTableOpen, the key's events,
\* StdTableClose, Decor and nothing is reported.
C11_DottedKeyEvents ==
    phase = "done" =>
        /\ IsDottedKey(tokens) => events = DottedKeyEvents(tokens)
        /\ LET n == Len(tokens)
               key == SubSeq(tokens, 2, n - 2)
           IN  /\ n >= 4
               /\ tokens[1].kind = "LeftSquareBracket"
               /\ IsDottedKey(key)
               /\ tokens[n - 1].kind = "RightSquareBracket"
               /\ tokens[n].kind = "Newline"
               => /\ events = <<Event("StdTableOpen", NoKind, tokens[1].raw)>>
                              \o DottedKeyEvents(key)
                              \o <<Event("StdTableClose", NoKind, tokens[n - 1].raw),
                                   Event("Decor", NoKind, tokens[n].raw)>>
                  /\ errors = <<>>

\* An iteration of `document` starts at a `[` token.
AtTableOpen ==
    /\ phase = "parse"
    /\ pos < Len(tokens)
    /\ tokens[pos + 1].kind = "LeftSquareBracket"

\* ... and the token after the `[` is another `[`.
AtArrayTableOpen ==
    /\ AtTableOpen
    /\ pos + 1 < Len(tokens)
    /\ tokens[pos + 2].kind = "LeftSquareBracket"

\* The iteration starts at `[` `[` <key> `]` `]` followed by a newline or by
\* the end of the tokens.
AtArrayTableHeader ==
    /\ AtArrayTableOpen
    /\ pos + 5 <= Len(tokens)
    /\ tokens[pos + 3].kind \in KeyKinds
    /\ tokens[pos + 4].kind = "RightSquareBracket"
    /\ tokens[pos + 5].kind = "RightSquareBracket"
    /\ pos + 5 < Len(tokens) => tokens[pos + 6].kind = "Newline"

\* C12: an iteration that starts at `[` `[` emits ArrayTableOpen over both
\* brackets first; when a single key and `]` `]` follow it emits exactly
\* ArrayTableOpen, SimpleKey, ArrayTableClose over both closing brackets and
\* the end-of-line decor, and reports nothing. An iteration that starts at a
\* `[` not followed by `[` emits StdTableOpen with the raw of that `[` first.
C12_ArrayTableBrackets ==
    [][/\ AtArrayTableOpen =>
            /\ Len(events') > Len(events)
            /\ events'[Len(events) + 1] =
                   Event("ArrayTableOpen", NoKind,
                         Slice(tokens[pos + 1].raw.start, tokens[pos + 2].raw.end))
       /\ AtArrayTableHeader =>
            /\ errors' = errors
            /\ events' = events \o
                  <<Event("ArrayTableOpen", NoKind,
                          Slice(tokens[pos + 1].raw.start, tokens[pos + 2].raw.end)),
                    Event("SimpleKey", string_kind(tokens[pos + 3].kind),
                          tokens[pos + 3].raw),
                    Event("ArrayTableClose", NoKind,
                          Slice(tokens[pos + 4].raw.start, tokens[pos + 5].raw.end))>>
                  \o (IF pos + 5 < Len(tokens)
                      THEN <<Event("Decor", NoKind, tokens[pos + 6].raw)>>
                      ELSE <<>>)
       /\ AtTableOpen /\ ~AtArrayTableOpen =>
            /\ Len(events') > Len(events)
            /\ events'[Len(events) + 1] = Event("StdTableOpen", NoKind, tokens[pos + 1].raw)
      ]_vars

\* parse_tokens has returned from an array table header with both double
\* brackets and a newline (`[[x]]\n`), with nothing reported.
C12_Witness ==
    /\ phase = "done"
    /\ Kinds(tokens) = <<"LeftSquareBracket", "LeftSquareBracket", "Atom",
                         "RightSquareBracket", "RightSquareBracket", "Newline">>
    /\ events[1].kind = "ArrayTableOpen"
    /\ events[3].kind = "ArrayTableClose"
    /\ errors = <<>>

\* An iteration of `document` starts at a `]` token.
AtStrayClose ==
    /\ phase = "parse"
    /\ pos < Len(tokens)
    /\ tokens[pos + 1].kind = "RightSquareBracket"

\* The number of tokens up to and including the first Newline token after
\* token number p, or up to the last token when no Newline follows.
EndOfLine(toks, p) ==
    LET newlines == {i \in p + 1 .. Len(toks) : toks[i].kind = "Newline"}
    IN  IF newlines = {} THEN Len(toks) ELSE Min(newlines)

\* C13: an iteration that starts at `]` emits an Error event for it first,
\* reports first a diagnostic that expects the literal `[` and whose unexpected
\* is the empty span just before the `]`, and takes the tokens up to and
\* including the next Newline; when only whitespace and comments stand between
\* the `]` and the end of its line, that diagnostic is the only one reported.
C13_StrayCloseBracket ==
    [][AtStrayClose =>
          LET token == tokens[pos + 1]
              eol == EndOfLine(tokens, pos + 1)
          IN  /\ Len(events') > Len(events)
              /\ events'[Len(events) + 1] = Event("Error", NoKind, token.raw)
              /\ Len(errors') > Len(errors)
              /\ errors'[Len(errors) + 1].expected = <<Literal("[")>>
              /\ errors'[Len(errors) + 1].unexpected = Slice(token.raw.start, token.raw.start)
              /\ pos' = eol
              /\ (\A i \in pos + 2 .. eol :
                     tokens[i].kind \in {"Whitespace", "Comment", "Newline"})
                 => Len(errors') = Len(errors) + 1
      ]_vars

\* parse_tokens has returned from an input made of a `]` followed by trivia,
\* with one diagnostic; and from an input where more than trivia follows a `]`.
C13_Witness ==
    /\ phase = "done"
    /\ Len(tokens) >= 2
    /\ tokens[1].kind = "RightSquareBracket"
    /\ \A i \in 2 .. Len(tokens) : tokens[i].kind \in {"Whitespace", "Comment", "Newline"}
    /\ Len(errors) = 1

----------------------------------------------------------------------------
(* Error sinks *)

\* C14: after the errors e1, ..., en have been reported in that order, the
\* Option sink holds e1 (None when n = 0), the Vec sink holds e1, ..., en in
\* that order (empty when n = 0), and the () sink holds nothing.
C14_SinksRetain ==
    phase = "report" =>
        /\ sinks.unit = "()"
        /\ sinks.option = (IF reported = <<>> THEN NoError ELSE Some(reported[1]))
        /\ sinks.vec = reported

\* Three errors have been reported, the later two different from the first.
C14_Witness ==
    /\ phase = "report"
    /\ Len(reported) = 3
    /\ reported[2] # reported[1]
    /\ reported[3] # reported[1]
    /\ reported[3] # reported[2]

----------------------------------------------------------------------------
(* Validators *)

\* A validator has been called on `call.raw`, and has returned or panicked.
Called(validator) ==
    /\ phase \in {"returned", "panic_validator"}
    /\ call.validator = validator

\* The raw is that of a token of this kind that the lexer returned.
LexedAs(kind, raw) == \E i \in DOMAIN tokens : tokens[i] = Token(kind, raw)

\* The raw starts and ends with the delimiter, and the two do not overlap.
Delimited(raw, delim) ==
    /\ SliceLen(raw) >= 2 * Len(delim)
    /\ SubSeq(input, raw.start + 1, raw.start + Len(delim)) = delim
    /\ SubSeq(input, raw.end - Len(delim) + 1, raw.end) = delim

\* What is strictly between two delimiters of n bytes.
Between(raw, n) == Slice(raw.start + n, raw.end - n)

\* C15: whatever raw a validator is called on, it returns a value: no
\* debug assertion (the offset < raw.len() of substr_at, the input.is_empty()
\* and the unreachable! of the string validators) fails.
C15_ValidatorsReturn == phase # "panic_validator"

\* C16: parse_literal_string, called on a LiteralString token of the lexer
\* that starts and ends with an apostrophe, returns the bytes strictly between
\* the two and reports no expected-apostrophe diagnostic, whatever it reports
\* about the content.
C16_LiteralStringValue ==
    (/\ Called("parse_literal_string")
     /\ LexedAs("LiteralString", call.raw)
     /\ Delimited(call.raw, <<APOSTROPHE>>))
    => /\ phase = "returned"
       /\ ~call.value.owned
       /\ call.value.slice = Between(call.raw, 1)
       /\ call.value.bytes = SubSeq(input, call.raw.start + 2, call.raw.end - 1)
       /\ \A i \in DOMAIN errors : errors[i].expected # <<Literal("'")>>

\* A literal string token with both apostrophes and a control character
\* between them has been validated: the content is reported, the value is it.
C16_Witness ==
    /\ phase = "returned"
    /\ call.validator = "parse_literal_string"
    /\ LexedAs("LiteralString", call.raw)
    /\ Delimited(call.raw, <<APOSTROPHE>>)
    /\ call.value.bytes = <<1>>
    /\ Len(errors) = 1

\* The raw has a backslash.
HasBackslash(raw) == \E i \in 0 .. SliceLen(raw) - 1 : Get(input, raw, i) = ESCAPE

\* Every byte of the slice is one of basic-unescaped.
Plain(s) == \A i \in 0 .. SliceLen(s) - 1 : Get(input, s, i) \in BASIC_UNESCAPED

----------------------------------------------------------------------------
(* Escape sequences *)

\* parse_basic_string or parse_ml_basic_string has been called on a raw with
\* both delimiters.
StringCalled ==
    \/ Called("parse_basic_string") /\ Delimited(call.raw, <<QUOTATION_MARK>>)
    \/ /\ Called("parse_ml_basic_string")
       /\ Delimited(call.raw, <<QUOTATION_MARK, QUOTATION_MARK, QUOTATION_MARK>>)

\* What is between the delimiters, and the offsets of its backslashes.
Content == Between(call.raw, IF call.validator = "parse_basic_string" THEN 1 ELSE 3)
Backslashes == {i \in 0 .. SliceLen(Content) - 1 : Get(input, Content, i) = ESCAPE}

\* The content is a run, one escape sequence, and what follows it: the
\* sequence starts at the first backslash and has a letter.
EscapeCalled ==
    /\ StringCalled
    /\ Backslashes # {}
    /\ Min(Backslashes) + 1 < SliceLen(Content)

EscapeStart == Content.start + Min(Backslashes)
EscapeLetter == input[EscapeStart + 2]
RunBefore == Slice(Content.start, EscapeStart)

\* What follows the n bytes behind the backslash and its letter.
RunAfter(n) == Slice(EscapeStart + 2 + n, Content.end)

\* The code points of the two-byte escapes, by letter: b f n r t \ "
SimpleEscapes ==
    (98 :> 8) @@ (102 :> 12) @@ (110 :> 10) @@ (114 :> 13) @@ (116 :> 9)
    @@ (ESCAPE :> ESCAPE) @@ (QUOTATION_MARK :> QUOTATION_MARK)

\* C18: in a basic or multi-line basic string made of an unescaped run, one
\* of the escapes \b \f \n \r \t \\ \" and an unescaped run, the value is the
\* first run, then U+0008, U+000C, U+000A, U+000D, U+0009, `\` or `"`, then
\* the second run, and nothing is reported.
C18_SimpleEscapes ==
    (/\ EscapeCalled
     /\ EscapeLetter \in DOMAIN SimpleEscapes
     /\ Plain(RunBefore)
     /\ Plain(RunAfter(0)))
    => /\ phase = "returned"
       /\ call.value.bytes = BytesOf(input, RunBefore) \o <<SimpleEscapes[EscapeLetter]>>
                                \o BytesOf(input, RunAfter(0))
       /\ errors = <<>>

\* A string with `\n` between two non-empty runs has been decoded.
C18_Witness ==
    /\ phase = "returned"
    /\ EscapeCalled
    /\ EscapeLetter = 110
    /\ SliceLen(RunBefore) > 0
    /\ SliceLen(RunAfter(0)) > 0
    /\ Plain(RunBefore)
    /\ Plain(RunAfter(0))
    /\ LF \in {call.value.bytes[i] : i \in DOMAIN call.value.bytes}

\* The character X of an escape `\X`: the bytes it takes.
EscapedChar == substr_at(input, Content, Min(Backslashes) + 1).raw

\* C19: in a basic or multi-line basic string made of an unescaped run, an
\* escape `\X` with X none of b f n r t \ " u U, and an unescaped run, one
\* diagnostic is reported, expecting the literals b f n r \ " u U, with X as
\* the unexpected span, and the value is the first run, a space, and the
\* second run.
C19_UnknownEscape ==
    (/\ EscapeCalled
     /\ EscapeLetter \notin DOMAIN SimpleEscapes \cup {117, 85}
     /\ Plain(RunBefore)
     /\ Plain(RunAfter(SliceLen(EscapedChar) - 1)))
    => /\ phase = "returned"
       /\ Len(errors) = 1
       /\ {errors[1].expected[i] : i \in DOMAIN errors[1].expected}
            = {Literal("b"), Literal("f"), Literal("n"), Literal("r"), Literal("\\"),
               Literal("\""), Literal("u"), Literal("U")}
       /\ errors[1].unexpected = EscapedChar
       /\ call.value.bytes = BytesOf(input, RunBefore) \o <<SPACE>>
                                \o BytesOf(input, RunAfter(SliceLen(EscapedChar) - 1))

\* The hex digits behind `\u` or `\U`: at most 4 or 8 of them.
HexLen == IF EscapeLetter = 117 THEN 4 ELSE 8
HexDigits == take_while(input, RunAfter(0), HEXDIG, HexLen).slice
HexValue == from_str_radix(BytesOf(input, HexDigits), 0)

\* A Unicode scalar value: not in D800..DFFF and not above 10FFFF.
IsScalarValue(v) == v <= 1114111 /\ ~(55296 <= v /\ v <= 57343)

\* The content is a run, `\u` or `\U` and what follows, with unescaped runs
\* before the escape and behind its digits.
HexEscapeCalled ==
    /\ EscapeCalled
    /\ EscapeLetter \in {117, 85}
    /\ Plain(RunBefore)
    /\ Plain(RunAfter(SliceLen(HexDigits)))

\* C20: `\u` followed by 4 hex digits, or `\U` followed by 8, that are the
\* number of a Unicode scalar value is decoded to that character and nothing
\* is reported; otherwise a diagnostic expecting "unicode 4-digit hex code" or
\* "unicode 8-digit hex code" is reported whose unexpected span is on the
\* digits of the escape (or where they should start when there is none), and
\* the validator decodes the rest and returns.
C20_HexEscape ==
    HexEscapeCalled =>
        IF SliceLen(HexDigits) = HexLen /\ IsScalarValue(HexValue)
        THEN /\ phase = "returned"
             /\ call.value.bytes = BytesOf(input, RunBefore) \o encode_utf8(HexValue)
                                      \o BytesOf(input, RunAfter(HexLen))
             /\ errors = <<>>
        ELSE /\ phase = "returned"
             /\ \E i \in DOMAIN errors :
                   /\ errors[i].expected =
                        <<Description(IF HexLen = 4 THEN "unicode 4-digit hex code"
                                      ELSE "unicode 8-digit hex code")>>
                   /\ errors[i].unexpected.start >= HexDigits.start
                   /\ \/ errors[i].unexpected.start < HexDigits.end
                      \/ SliceLen(HexDigits) = 0 /\ errors[i].unexpected.start = HexDigits.start

----------------------------------------------------------------------------
(* Multi-line strings *)

\* The spaces, tabs and newline bytes behind the first backslash of the
\* content: where they end.
ContinuationEnd ==
    Min({i \in EscapeStart + 1 .. Content.end :
            i = Content.end \/ input[i + 1] \notin WSCHAR \cup {LF, CR}})
Continuation == Slice(EscapeStart + 1, ContinuationEnd)

\* They hold a newline, and each `\r` among them is the start of a `\r\n`.
IsLineContinuation ==
    /\ \E i \in 0 .. SliceLen(Continuation) - 1 : Get(input, Continuation, i) = LF
    /\ \A i \in 0 .. SliceLen(Continuation) - 1 :
          Get(input, Continuation, i) = CR => Get(input, Continuation, i + 1) = LF

\* C21: in a multi-line basic string made of an unescaped run, a line
\* continuation (a backslash, spaces or tabs, a newline, then any mix of
\* spaces, tabs and newlines) and an unescaped run, the value is the two runs
\* joined and nothing is reported.
C21_LineContinuation ==
    (/\ EscapeCalled
     /\ call.validator = "parse_ml_basic_string"
     /\ IsLineContinuation
     /\ Plain(RunBefore)
     /\ Plain(Slice(ContinuationEnd, Content.end)))
    => /\ phase = "returned"
       /\ call.value.bytes = BytesOf(input, RunBefore)
                                \o BytesOf(input, Slice(ContinuationEnd, Content.end))
       /\ errors = <<>>

\* A line continuation of several newlines between two non-empty runs has
\* been decoded.
C21_Witness ==
    /\ phase = "returned"
    /\ EscapeCalled
    /\ call.validator = "parse_ml_basic_string"
    /\ IsLineContinuation
    /\ SliceLen(Continuation) > 3
    /\ SliceLen(RunBefore) > 0
    /\ Plain(RunBefore)
    /\ ContinuationEnd < Content.end
    /\ Plain(Slice(ContinuationEnd, Content.end))
    /\ Len(call.value.bytes) = SliceLen(RunBefore) + Content.end - ContinuationEnd

\* What parse_ml_literal_string is given between its two `'''`, less one
\* newline (`\n` or `\r\n`) right behind the opening `'''`.
MlLiteralBody ==
    LET between == Between(call.raw, 3)
        n == IF Get(input, between, 0) = LF THEN 1
             ELSE IF Get(input, between, 0) = CR /\ Get(input, between, 1) = LF THEN 2
             ELSE 0
    IN  Slice(between.start + n, between.end)

\* C22: parse_ml_literal_string, called on a raw that starts and ends with
\* `'''`, returns what is between the two, less one newline right behind the
\* opening `'''`, as it is: later newlines and apostrophes before the closing
\* `'''` are kept. Nothing is reported when the body has only allowed
\* characters.
C22_MlLiteralValue ==
    (/\ Called("parse_ml_literal_string")
     /\ Delimited(call.raw, <<APOSTROPHE, APOSTROPHE, APOSTROPHE>>))
    => /\ phase = "returned"
       /\ ~call.value.owned
       /\ call.value.slice = MlLiteralBody
       /\ call.value.bytes = BytesOf(input, MlLiteralBody)
       /\ (\A i \in 0 .. SliceLen(MlLiteralBody) - 1 :
              \/ Get(input, MlLiteralBody, i) \in MLL_CHAR \cup {APOSTROPHE, LF}
              \/ Get(input, MlLiteralBody, i) = CR /\ Get(input, MlLiteralBody, i + 1) = LF)
          => errors = <<>>

\* The opening and closing delimiter of the token kind a string validator is
\* for.
DelimOf(validator) ==
    CASE validator = "parse_literal_string" -> <<APOSTROPHE>>
      [] validator = "parse_ml_literal_string" -> <<APOSTROPHE, APOSTROPHE, APOSTROPHE>>
      [] validator = "parse_basic_string" -> <<QUOTATION_MARK>>
      [] validator = "parse_ml_basic_string" -> <<QUOTATION_MARK, QUOTATION_MARK, QUOTATION_MARK>>

KindOf(validator) ==
    CASE validator = "parse_literal_string" -> "LiteralString"
      [] validator = "parse_ml_literal_string" -> "MlLiteralString"
      [] validator = "parse_basic_string" -> "BasicString"
      [] validator = "parse_ml_basic_string" -> "MlBasicString"

\* The raw of the call has no closing delimiter: it does not end with one
\* behind its opening delimiter, or, in a basic string, the quotation mark it
\* ends with is escaped by the odd run of backslashes before it.
Unclosed ==
    LET delim == DelimOf(call.validator)
        body == Slice(call.raw.start + Len(delim), call.raw.end - Len(delim))
        slashes == body.end - Min({i \in body.start .. body.end :
                                      \A k \in i + 1 .. body.end : input[k] = ESCAPE})
    IN  \/ ~Delimited(call.raw, delim)
        \/ /\ call.validator \in {"parse_basic_string", "parse_ml_basic_string"}
           /\ slashes % 2 = 1

\* C23: when a string validator is called on a token of its kind that the
\* lexer cut without a closing delimiter, the validator returns a value and has
\* reported at least one diagnostic.
C23_UnclosedReported ==
    (/\ phase \in {"returned", "panic_validator"}
     /\ call.validator \in {"parse_literal_string", "parse_ml_literal_string",
                            "parse_basic_string", "parse_ml_basic_string"}
     /\ LexedAs(KindOf(call.validator), call.raw)
     /\ Unclosed)
    => /\ phase = "returned"
       /\ Len(errors) >= 1

(* Unquoted keys *)

\* The character of the raw that holds byte i of it.
CharAt(i) ==
    LET lo == CHOOSE j \in 0 .. i :
                  /\ j = 0 \/ ~IsCont(Get(input, call.raw, j))
                  /\ \A k \in j + 1 .. i : IsCont(Get(input, call.raw, k))
        hi == Min({j \in i + 1 .. SliceLen(call.raw) :
                      j = SliceLen(call.raw) \/ ~IsCont(Get(input, call.raw, j))})
    IN  Slice(call.raw.start + lo, call.raw.start + hi)

\* C24: parse_unquoted_key returns the raw as it is. It reports nothing
\* exactly when the raw is one or more of A-Z a-z 0-9 `-` `_`; every other
\* byte is reported, each report expecting letters, numbers, `-`, `_` with the
\* whole character of that byte as the unexpected span.
C24_UnquotedKey ==
    Called("parse_unquoted_key")
    => /\ phase = "returned"
       /\ call.value = Borrowed(input, call.raw)
       /\ errors = <<>>
          <=> /\ SliceLen(call.raw) > 0
              /\ \A i \in 0 .. SliceLen(call.raw) - 1 : Get(input, call.raw, i) \in UNQUOTED_CHAR
       /\ \A i \in 0 .. SliceLen(call.raw) - 1 :
             Get(input, call.raw, i) \notin UNQUOTED_CHAR
             => \E k \in 1 .. Len(errors) : errors[k].unexpected = CharAt(i)
       /\ \A k \in 1 .. Len(errors) :
             /\ errors[k].expected =
                   <<Description("letters"), Description("numbers"), Literal("-"), Literal("_")>>
             /\ \E i \in 0 .. SliceLen(call.raw) - 1 :
                   /\ Get(input, call.raw, i) \notin UNQUOTED_CHAR
                   /\ errors[k].unexpected = CharAt(i)

----------------------------------------------------------------------------
(* String tokens *)

\* Where a basic string whose opening `"` is behind offset `from` ends: just
\* after the first `"` that no backslash escapes, or before the first line
\* feed, or at the end of the input. A backslash takes the `\` or `"` behind
\* it with it.
RECURSIVE BasicStringEnd(_)
BasicStringEnd(from) ==
    IF from >= Len(input) THEN Len(input)
    ELSE IF input[from + 1] = QUOTATION_MARK THEN from + 1
    ELSE IF input[from + 1] = LF THEN from
    ELSE IF /\ input[from + 1] = ESCAPE
            /\ from + 1 < Len(input)
            /\ input[from + 2] \in {ESCAPE, QUOTATION_MARK}
         THEN BasicStringEnd(from + 2)
    ELSE BasicStringEnd(from + 1)

\* C25: a BasicString token starts at a `"` and ends just after the first
\* later `"` that is not escaped, or just before the first line feed, or at
\* the end of the input: it never goes on behind its closing `"`.
C25_BasicStringEnd ==
    \A i \in DOMAIN tokens :
        tokens[i].kind = "BasicString"
        => /\ input[tokens[i].raw.start + 1] = QUOTATION_MARK
           /\ tokens[i].raw.end = BasicStringEnd(tokens[i].raw.start + 1)

\* Where a multi-line basic string whose opening `"""` is behind offset `from`
\* ends: behind the first `"""` that no backslash escapes and the one or two
\* `"` right behind it, or at the end of the input.
RECURSIVE MlBasicStringEnd(_)
MlBasicStringEnd(from) ==
    IF from >= Len(input) THEN Len(input)
    ELSE IF /\ from + 3 <= Len(input)
            /\ \A k \in 1 .. 3 : input[from + k] = QUOTATION_MARK
         THEN Min({e \in from + 3 .. from + 5 :
                      \/ e = from + 5
                      \/ e >= Len(input)
                      \/ input[e + 1] # QUOTATION_MARK})
    ELSE IF /\ input[from + 1] = ESCAPE
            /\ from + 1 < Len(input)
            /\ input[from + 2] \in {ESCAPE, QUOTATION_MARK}
         THEN MlBasicStringEnd(from + 2)
    ELSE MlBasicStringEnd(from + 1)

\* C26: an MlBasicString token starts at a `"""` and goes through the first
\* later `"""` that is not escaped, and one or two `"` right behind it, or to
\* the end of the input: no single `"`, `""` or newline in the body ends it,
\* before a backslash of the body or after one.
C26_MlBasicStringEnd ==
    \A i \in DOMAIN tokens :
        tokens[i].kind = "MlBasicString"
        => /\ SubSeq(input, tokens[i].raw.start + 1, tokens[i].raw.start + 3)
                 = <<QUOTATION_MARK, QUOTATION_MARK, QUOTATION_MARK>>
           /\ tokens[i].raw.end = MlBasicStringEnd(tokens[i].raw.start + 3)

\* Where the closing delimiter of a multi-line string ends whose opening
\* delimiter is behind offset `from`: behind the first three quotes in a row,
\* which in a basic string no backslash escapes; None when there is none.
RECURSIVE MlCloseEnd(_, _)
MlCloseEnd(from, quote) ==
    IF from + 3 > Len(input) THEN None
    ELSE IF \A k \in 1 .. 3 : input[from + k] = quote THEN from + 3
    ELSE IF /\ quote = QUOTATION_MARK
            /\ input[from + 1] = ESCAPE
            /\ input[from + 2] \in {ESCAPE, QUOTATION_MARK}
         THEN MlCloseEnd(from + 2, quote)
    ELSE MlCloseEnd(from + 1, quote)

\* How many quotes stand right behind offset `from`, counted up to three.
QuotesBehind(from, quote) ==
    Cardinality({n \in 1 .. 3 : /\ from + n <= Len(input)
                                /\ \A k \in 1 .. n : input[from + k] = quote})

----------------------------------------------------------------------------
(* Comments *)

\* What on_comment leaves when it is called with the i-th token, a comment,
\* just taken and nothing received or reported before.
AfterComment(i) ==
    on_comment(tokens, [pos |-> i, events |-> <<>>, errors |-> <<>>, ok |-> TRUE], tokens[i])

\* C28: a Comment token starts at `#` and ends just before the next `\r` or
\* `\n`, or at the end of the input, and has no `\r` or `\n` in it. Once the
\* lexer is done, every Comment token is the last token or is followed by a
\* Newline token (`\n`, `\r\n` or `\r`), and on_comment, called on it, emits
\* the Decor events of the comment and of the newline, no Error event, and
\* reports nothing.
C28_CommentToken ==
    \A i \in DOMAIN tokens :
        tokens[i].kind = "Comment"
        => /\ input[tokens[i].raw.start + 1] = COMMENT_START_SYMBOL
           /\ \A k \in tokens[i].raw.start + 1 .. tokens[i].raw.end : input[k] \notin {CR, LF}
           /\ \/ tokens[i].raw.end = Len(input)
              \/ input[tokens[i].raw.end + 1] \in {CR, LF}
           /\ i < Len(tokens)
              => /\ tokens[i + 1].kind = "Newline"
                 /\ BytesOf(input, tokens[i + 1].raw) \in {<<LF>>, <<CR, LF>>, <<CR>>}
           /\ phase # "lex"
              => /\ i = Len(tokens) <=> tokens[i].raw.end = Len(input)
                 /\ AfterComment(i).ok
                 /\ AfterComment(i).errors = <<>>
                 /\ AfterComment(i).events =
                       IF i = Len(tokens) THEN <<Event("Decor", NoKind, tokens[i].raw)>>
                       ELSE <<Event("Decor", NoKind, tokens[i].raw),
                              Event("Decor", NoKind, tokens[i + 1].raw)>>
                 /\ AfterComment(i).pos = IF i = Len(tokens) THEN i ELSE i + 1

\* `#a` and a lone `\r` have been parsed: the comment up to the `\r`, and the
\* `\r` as its newline.
C28_Witness ==
    /\ phase = "done"
    /\ Len(tokens) = 2
    /\ tokens[1] = Token("Comment", Slice(0, 2))
    /\ tokens[2] = Token("Newline", Slice(2, 3))
    /\ input[3] = CR
    /\ events = <<Event("Decor", NoKind, tokens[1].raw),
                  Event("Decor", NoKind, tokens[2].raw)>>
    /\ errors = <<>>

----------------------------------------------------------------------------
(* Atoms *)

\* C29: an Atom token ends just before the first byte of the stop set
\* `.=,[]{} \t#\r\n)'"`, or at the end of the input: no byte of its raw is in
\* the stop set, and the byte behind it, when there is one, is.
C29_AtomEnd ==
    \A i \in DOMAIN tokens :
        tokens[i].kind = "Atom"
        => /\ \A k \in tokens[i].raw.start + 1 .. tokens[i].raw.end : input[k] \notin TOKEN_START
           /\ \/ tokens[i].raw.end = Len(input)
              \/ input[tokens[i].raw.end + 1] \in TOKEN_START

\* `foo = 42\n` has been lexed: the atom `foo` ends before the space and the
\* atom `42` before the line feed.
C29_Witness ==
    /\ phase = "done"
    /\ Len(tokens) = 6
    /\ tokens[1] = Token("Atom", Slice(0, 3))
    /\ input[4] = SPACE
    /\ tokens[5] = Token("Atom", Slice(6, 8))
    /\ input[9] = LF

----------------------------------------------------------------------------
(* Whitespace in dotted keys *)

\* What on_key leaves when it is called with the first token, a key, just
\* taken and nothing received or reported before.
AfterKey ==
    on_key(tokens, [pos |-> 1, events |-> <<>>, errors |-> <<>>, ok |-> TRUE],
           tokens[1], string_kind(tokens[1].kind))

\* C30: for a key `k1 . k2 . k3` with whitespace before and after each dot,
\* on_key takes all three segments: it emits SimpleKey, Decor, KeySep, Decor,
\* SimpleKey, Decor, KeySep, Decor, SimpleKey, each with the raw of its token,
\* and reports nothing; whitespace behind the last segment is taken too, as one
\* more Decor, before on_key returns.
C30_DottedKeyWhitespace ==
    (/\ phase # "lex"
     /\ Len(tokens) >= 9
     /\ Kinds(SubSeq(tokens, 1, 9)) =
           <<"Atom", "Whitespace", "Dot", "Whitespace", "Atom", "Whitespace", "Dot",
             "Whitespace", "Atom">>)
    => LET trailing == Len(tokens) >= 10 /\ tokens[10].kind = "Whitespace"
       IN  /\ AfterKey.p.ok
           /\ AfterKey.p.errors = <<>>
           /\ AfterKey.p.pos = IF trailing THEN 10 ELSE 9
           /\ AfterKey.p.events =
                 [i \in 1 .. (IF trailing THEN 10 ELSE 9) |->
                     Event(CASE tokens[i].kind = "Atom" -> "SimpleKey"
                             [] tokens[i].kind = "Dot" -> "KeySep"
                             [] tokens[i].kind = "Whitespace" -> "Decor",
                           IF tokens[i].kind = "Atom" THEN "Unquoted" ELSE NoKind,
                           tokens[i].raw)]

----------------------------------------------------------------------------
(* Errors in keys and table headers *)

\* The number of the token behind token number i and the whitespace token
\* that may follow it.
BehindWhitespace(i) ==
    IF i < Len(tokens) /\ tokens[i + 1].kind = "Whitespace" THEN i + 2 ELSE i + 1

\* The dot of the dotted key that starts at token number i, a key token,
\* which no key follows, and the token that stands there instead (`bad`, one
\* past the last token at the end of the input); dot = 0 when every dot of
\* the key has its key. Whitespace may stand before and after every dot.
RECURSIVE DanglingDot(_)
DanglingDot(i) ==
    LET dot == BehindWhitespace(i)
        bad == BehindWhitespace(dot)
    IN  IF dot > Len(tokens) \/ tokens[dot].kind # "Dot" THEN [dot |-> 0, bad |-> 0]
        ELSE IF bad <= Len(tokens) /\ tokens[bad].kind \in KeyKinds THEN DanglingDot(bad)
        ELSE [dot |-> dot, bad |-> bad]

\* What on_key leaves when it is called with token number i, a key, just
\* taken and nothing received or reported before.
OnKeyAt(i) ==
    on_key(tokens, [pos |-> i, events |-> <<>>, errors |-> <<>>, ok |-> TRUE],
           tokens[i], string_kind(tokens[i].kind))

\* C31: when a dot of a key is followed, behind optional whitespace, by a
\* token that is no key, on_key emits an Error event for that token, its only
\* one, and reports one diagnostic "dotted key" that expects a key, with the
\* context from the first key token to the dot and the empty span before the
\* token as unexpected; when nothing follows the dot, the unexpected is the
\* empty span behind the dot and there is no Error event. on_key returns None.
C31_DanglingDot ==
    phase # "lex" =>
        \A i \in DOMAIN tokens :
            (tokens[i].kind \in KeyKinds /\ DanglingDot(i).dot # 0)
            => LET dot == tokens[DanglingDot(i).dot]
                   bad == DanglingDot(i).bad
                   r == OnKeyAt(i)
                   Errors == {k \in DOMAIN r.p.events : r.p.events[k].kind = "Error"}
               IN  /\ r.success = NoToken
                   /\ r.p.ok
                   /\ r.p.errors =
                         <<ParseError(append(tokens[i].raw, dot.raw), "dotted key",
                                      <<Description("key")>>,
                                      IF bad <= Len(tokens) THEN before(tokens[bad].raw)
                                      ELSE after(dot.raw))>>
                   /\ IF bad <= Len(tokens)
                      THEN /\ Errors = {Len(r.p.events)}
                           /\ r.p.events[Len(r.p.events)] = Event("Error", NoKind, tokens[bad].raw)
                           /\ r.p.pos = bad
                      ELSE /\ Errors = {}
                           /\ r.p.pos = Len(tokens)

\* The last segment of the dotted key that starts at token number i, a key
\* token: the number of the last key token that a dot, with optional
\* whitespace around it, joins to it.
RECURSIVE LastSegment(_)
LastSegment(i) ==
    LET dot == BehindWhitespace(i)
        segment == BehindWhitespace(dot)
    IN  IF /\ segment <= Len(tokens)
           /\ tokens[dot].kind = "Dot"
           /\ tokens[segment].kind \in KeyKinds
        THEN LastSegment(segment)
        ELSE i

\* What on_table leaves when it is called with token number i, a `[`, just
\* taken and nothing received or reported before.
OnTableAt(i) ==
    on_table(tokens, [pos |-> i, events |-> <<>>, errors |-> <<>>, ok |-> TRUE], tokens[i])

\* C32: a table header whose key is not followed by `]` has one diagnostic,
\* "table" expecting `]`, or "array table" expecting `]]` behind `[[`, whose
\* unexpected is the empty span behind the last segment of the key; an array
\* table closed by one `]` only has one diagnostic, "array table" expecting
\* `]`, whose unexpected is the empty span behind that `]`. No close event is
\* emitted, and on_table takes the tokens up to and including the next Newline.
C32_MissingClose ==
    phase # "lex" =>
        \A i \in DOMAIN tokens :
            LET is_array == i < Len(tokens) /\ tokens[i + 1].kind = "LeftSquareBracket"
                key == BehindWhitespace(IF is_array THEN i + 1 ELSE i)
                last == LastSegment(key)
                close == BehindWhitespace(last)
                has_close == close <= Len(tokens) /\ tokens[close].kind = "RightSquareBracket"
                has_second == /\ close < Len(tokens)
                              /\ tokens[close + 1].kind = "RightSquareBracket"
                r == OnTableAt(i)
            IN  (/\ tokens[i].kind = "LeftSquareBracket"
                 /\ key <= Len(tokens)
                 /\ tokens[key].kind \in KeyKinds
                 /\ DanglingDot(key).dot = 0
                 /\ ~has_close \/ (is_array /\ ~has_second))
                => /\ r.ok
                   /\ Len(r.errors) = 1
                   /\ r.errors[1].description = IF is_array THEN "array table" ELSE "table"
                   /\ r.errors[1].expected =
                         IF has_close THEN <<Literal("]")>>
                         ELSE IF is_array THEN <<Literal("]]")>> ELSE <<Literal("]")>>
                   /\ r.errors[1].unexpected =
                         IF has_close THEN after(tokens[close].raw)
                         ELSE after(tokens[last].raw)
                   /\ \A k \in DOMAIN r.events :
                         r.events[k].kind \notin {"StdTableClose", "ArrayTableClose"}
                   /\ r.pos = EndOfLine(tokens, IF has_close THEN close ELSE close - 1)

----------------------------------------------------------------------------
(* The end of a line *)

\* What ws_comment_nl leaves when it is called with n tokens taken and nothing
\* received or reported before.
WsCommentNlAt(n) ==
    ws_comment_nl(tokens, [pos |-> n, events |-> <<>>, errors |-> <<>>, ok |-> TRUE])

\* The tokens of n + 1 .. m that are no whitespace, comment or newline.
Offending(n, m) ==
    {k \in n + 1 .. m : tokens[k].kind \notin {"Whitespace", "Comment", "Newline"}}

\* C33: behind the `]` that closes a table header the parser takes the tokens
\* up to and including the next Newline: it emits a Decor event for every
\* Whitespace, Comment and Newline token and an Error event for every other
\* token. When there is such a token it reports one diagnostic "newline"
\* whose unexpected runs from the first of them to the last; when there is
\* none it reports nothing.
C33_EndOfHeaderLine ==
    phase # "lex" =>
        \A n \in DOMAIN tokens :
            tokens[n].kind = "RightSquareBracket"
            => LET r == WsCommentNlAt(n)
                   end == EndOfLine(tokens, n)
                   bad == Offending(n, end)
               IN  /\ r.ok
                   /\ r.pos = end
                   /\ r.events =
                         [k \in 1 .. end - n |->
                             Event(IF n + k \in bad THEN "Error" ELSE "Decor", NoKind,
                                   tokens[n + k].raw)]
                   /\ IF bad = {} THEN r.errors = <<>>
                      ELSE /\ Len(r.errors) = 1
                           /\ r.errors[1].description = "newline"
                           /\ r.errors[1].unexpected =
                                 Slice(tokens[Min(bad)].raw.start,
                                       tokens[CHOOSE k \in bad : \A j \in bad : j <= k].raw.end)

\* `[a] b.c #d\n` has been parsed: the header is closed, `b`, `.` and `c` are
\* Error events and the one diagnostic spans `b.c`.
C33_Witness ==
    /\ phase = "done"
    /\ Kinds(tokens) = <<"LeftSquareBracket", "Atom", "RightSquareBracket", "Whitespace",
                         "Atom", "Dot", "Atom", "Whitespace", "Comment", "Newline">>
    /\ Kinds(events) = <<"StdTableOpen", "SimpleKey", "StdTableClose", "Decor", "Error",
                         "Error", "Error", "Decor", "Decor", "Decor">>
    /\ Len(errors) = 1
    /\ errors[1].description = "newline"
    /\ errors[1].unexpected = Slice(tokens[5].raw.start, tokens[7].raw.end)

\* What ignore_to_newline leaves when it is called with n tokens taken and
\* nothing received or reported before.
IgnoreToNewlineAt(n) ==
    ignore_to_newline(tokens, [pos |-> n, events |-> <<>>, errors |-> <<>>, ok |-> TRUE])

\* C34: ignore_to_newline takes the tokens up to and including the first
\* Newline token, or all of them when there is none: it emits an Error event
\* for every token before the Newline and a Decor event for the Newline,
\* reports nothing, and leaves the tokens behind the Newline untaken.
C34_IgnoreToNewline ==
    phase # "lex" =>
        \A n \in 0 .. Len(tokens) :
            LET r == IgnoreToNewlineAt(n)
                end == EndOfLine(tokens, n)
            IN  /\ r.ok
                /\ r.pos = end
                /\ r.errors = <<>>
                /\ r.events =
                      [k \in 1 .. end - n |->
                          Event(IF tokens[n + k].kind = "Newline" THEN "Decor" ELSE "Error",
                                NoKind, tokens[n + k].raw)]

\* `=a b\nc` has been parsed: behind the `=` that on_missing_expression_key
\* reports, `a`, the space and `b` are Error events, the line feed is Decor,
\* and `c` is parsed as a key.
C34_Witness ==
    /\ phase = "done"
    /\ Kinds(tokens) = <<"Equals", "Atom", "Whitespace", "Atom", "Newline", "Atom">>
    /\ Kinds(events) = <<"Error", "Error", "Error", "Error", "Decor", "SimpleKey">>
    /\ events[6].raw = tokens[6].raw
    /\ Len(errors) = 1
    /\ errors[1].description = "key-value pair"

\* The token slices on_comment is checked on: a Comment token of the input
\* followed by the tokens of the input from token number j on, for every j
\* behind the comment. For j behind the comment's Newline these are slices
\* that the lexer does not return.
CommentSlices ==
    UNION {{<<tokens[i]>> \o SubSeq(tokens, j, Len(tokens)) : j \in i + 1 .. Len(tokens) + 1} :
              i \in {k \in DOMAIN tokens : tokens[k].kind = "Comment"}}

\* What the claim gives on_comment on the slice toks, whose first token is the
\* comment: the Decor of the comment, an Error event for every token up to the
\* next Newline and a Decor for that Newline, and one diagnostic over the
\* whole run when there is one.
OneReportPerRun(toks) ==
    LET r == on_comment(toks, [pos |-> 1, events |-> <<>>, errors |-> <<>>, ok |-> TRUE],
                        toks[1])
        end == EndOfLine(toks, 1)
        bad == {k \in 2 .. end : toks[k].kind # "Newline"}
    IN  /\ r.ok
        /\ r.pos = end
        /\ r.events =
              [k \in 1 .. end |->
                  Event(IF k \in bad THEN "Error" ELSE "Decor", NoKind, toks[k].raw)]
        /\ IF bad = {} THEN r.errors = <<>>
           ELSE /\ Len(r.errors) = 1
                /\ r.errors[1].unexpected =
                      Slice(toks[2].raw.start, toks[1 + Cardinality(bad)].raw.end)

\* C35: on any token slice, on_comment emits an Error event for every token
\* between the comment and the next Newline and reports exactly one diagnostic
\* for the run of them, whose unexpected runs from the first to the last.
C35_OneReportPerRun ==
    phase # "lex" => \A toks \in CommentSlices : OneReportPerRun(toks)

----------------------------------------------------------------------------
(* The diagnostics of a document *)

\* C36: parse_tokens reports its diagnostics in the order of the source: the
\* unexpected span of a diagnostic never starts before that of the diagnostic
\* reported before it.
C36_SourceOrder ==
    \A k \in 1 .. Len(errors) - 1 :
        errors[k].unexpected.start <= errors[k + 1].unexpected.start

\* A stray `]` and a token behind it on its line have been parsed: the
\* diagnostic of the `]` comes first, the one over the rest of the line second.
C36_Witness ==
    /\ phase = "done"
    /\ Len(errors) = 2
    /\ errors[1].description = "table"
    /\ errors[2].description = "newline"
    /\ errors[1].unexpected.start < errors[2].unexpected.start

\* C37: recovery from a syntax error stays in the line of the error: an
\* iteration of `document` that reports a diagnostic takes no token behind the
\* first Newline token it meets, so that `document` goes on with the first
\* token of the next line, and it emits no event, and so no Error event, for a
\* token of a later line. This holds too when the Newline is the offending
\* token, behind a `[` or behind the dot of a key.
C37_RecoveryInLine ==
    [][(phase = "parse" /\ Len(errors') > Len(errors))
       => /\ pos' <= EndOfLine(tokens, pos)
          /\ \A k \in Len(events) + 1 .. Len(events') :
                events'[k].raw.end <= tokens[EndOfLine(tokens, pos)].raw.end]_vars

\* C38: when the receiver has been given an Error event, the error sink has
\* been given a diagnostic: parse_tokens emits no Error event without
\* reporting.
C38_ErrorEventReported ==
    (\E k \in DOMAIN events : events[k].kind = "Error") => errors # <<>>

\* `[`, a line feed and a key have been parsed: table_key reported the line
\* feed, and ignore_to_newline, which reports nothing, made the key an Error
\* event.
C38_Witness ==
    /\ phase = "done"
    /\ Kinds(tokens) = <<"LeftSquareBracket", "Newline", "Atom">>
    /\ Kinds(events) = <<"StdTableOpen", "Error", "Error">>
    /\ Len(errors) = 1

\* C39: both spans of every diagnostic that parse_tokens reports lie in the
\* input, and the unexpected span lies in the context span; no Raw::append of
\* the parser fails its assertion that its first argument starts at or before
\* the end of the second.
C39_SpansNested ==
    /\ phase # "panic_append"
    /\ \A k \in DOMAIN errors :
          /\ 0 <= errors[k].context.start
          /\ errors[k].context.start <= errors[k].unexpected.start
          /\ errors[k].unexpected.start <= errors[k].unexpected.end
          /\ errors[k].unexpected.end <= errors[k].context.end
          /\ errors[k].context.end <= Len(input)

----------------------------------------------------------------------------
(* Table headers in the event stream *)

\* The open event that goes with a close event.
OpenOf(kind) == IF kind = "StdTableClose" THEN "StdTableOpen" ELSE "ArrayTableOpen"

\* C40: table headers are well bracketed in the events: before every
\* StdTableClose there is a StdTableOpen, and before every ArrayTableClose an
\* ArrayTableOpen, with nothing but SimpleKey, KeySep and Decor events, and at
\* least one SimpleKey, between the two. So no open is closed by the close of
\* the other kind, or twice.
C40_HeadersBracketed ==
    \A c \in DOMAIN events :
        events[c].kind \in {"StdTableClose", "ArrayTableClose"}
        => \E o \in 1 .. c - 1 :
              /\ events[o].kind = OpenOf(events[c].kind)
              /\ \A k \in o + 1 .. c - 1 : events[k].kind \in {"SimpleKey", "KeySep", "Decor"}
              /\ \E k \in o + 1 .. c - 1 : events[k].kind = "SimpleKey"

\* `[a.b]\n` has been parsed: the header's events are the open, the two keys
\* and their separator, and the close.
C40_Witness ==
    /\ phase = "done"
    /\ Kinds(events) = <<"StdTableOpen", "SimpleKey", "KeySep", "SimpleKey",
                         "StdTableClose", "Decor">>
    /\ errors = <<>>

============================================================================
